---------------------------- MODULE Spec2Model ----------------------------
(***************************************************************************)
(* Weekly planner (projects/weekplanner/readtheweek.py): createtask walks  *)
(* a week plan and creates Google Tasks and Calendar entries for what is   *)
(* missing.  Strings are sequences of one-character strings, datetimes are *)
(* naive local wall-clock values counted in seconds from a Monday 00:00:00 *)
(* (microseconds are not modelled: the clock is read in whole seconds).    *)
(***************************************************************************)
EXTENDS Integers, Sequences, FiniteSets, TLC

(* ------------------------------ bounds --------------------------------- *)
\* invocations of the script in one behaviour
MaxRuns == 2
\* how many times the clock may jump forward by ClockJump while a run waits
\* on a sink call, or between two runs
MaxJumps == 1
\* sink calls that may fail (raise) in one behaviour
MaxFails == 1

(* ------------------------- units of the clock -------------------------- *)
Minute == 60
Hour == 60 * Minute
Day == 24 * Hour
Week == 7 * Day
\* the amount by which the clock jumps (12 hours)
ClockJump == 12 * Hour

(* ------------------------- program constants --------------------------- *)
\* timedelta(days=7) of the past-time push
PushDays == 7
\* due_datetime = target_date.replace(hour=20, ...)
DueHour == 20
\* start of a timed task's block: task_datetime - timedelta(minutes=30)
LeadMinutes == 30
\* 'overrides': [{'method': 'popup', 'minutes': 15}]
ReminderMinutes == 15
\* end of a meal: mealduedatetime + timedelta(hours=1)
MealHours == 1
\* default_time=time(19, 0), default_duration=120
DefaultActivityHour == 19
DefaultDuration == 120
\* duration > 1440 is rejected
MaxDuration == 1440

(* ------------------------------ strings -------------------------------- *)
Uppers == <<"A", "B", "C", "D", "E", "F", "G", "H", "I", "J", "K", "L", "M",
            "N", "O", "P", "Q", "R", "S", "T", "U", "V", "W", "X", "Y", "Z">>
Lowers == <<"a", "b", "c", "d", "e", "f", "g", "h", "i", "j", "k", "l", "m",
            "n", "o", "p", "q", "r", "s", "t", "u", "v", "w", "x", "y", "z">>

ToLower == [c \in { Uppers[i] : i \in 1..26 } |-> Lowers[CHOOSE i \in 1..26 : Uppers[i] = c]]
ToUpper == [c \in { Lowers[i] : i \in 1..26 } |-> Uppers[CHOOSE i \in 1..26 : Lowers[i] = c]]
\* str.lower() and str.upper() on one character
LowerChar(c) == IF c \in DOMAIN ToLower THEN ToLower[c] ELSE c
UpperChar(c) == IF c \in DOMAIN ToUpper THEN ToUpper[c] ELSE c

\* str.lower()
Lower(s) == [i \in 1..Len(s) |-> LowerChar(s[i])]
\* str.capitalize(): first character upper case, the rest lower case
Capitalize(s) == [i \in 1..Len(s) |-> IF i = 1 THEN UpperChar(s[i]) ELSE LowerChar(s[i])]

Digits == <<"0", "1", "2", "3", "4", "5", "6", "7", "8", "9">>
ToDigit == [c \in { Digits[i] : i \in 1..10 } |-> (CHOOSE i \in 1..10 : Digits[i] = c) - 1]
\* \d
IsDigit(c) == c \in DOMAIN ToDigit
DigitVal(c) == ToDigit[c]
\* \s (the plans hold no tab or newline)
IsSpace(c) == c = " "

S_monday == <<"m", "o", "n", "d", "a", "y">>
S_tuesday == <<"t", "u", "e", "s", "d", "a", "y">>
S_wednesday == <<"w", "e", "d", "n", "e", "s", "d", "a", "y">>
S_thursday == <<"t", "h", "u", "r", "s", "d", "a", "y">>
S_friday == <<"f", "r", "i", "d", "a", "y">>
S_saturday == <<"s", "a", "t", "u", "r", "d", "a", "y">>
S_sunday == <<"s", "u", "n", "d", "a", "y">>
S_allweek == <<"a", "l", "l", "w", "e", "e", "k">>
S_things == <<"t", "h", "i", "n", "g", "s">>
S_activity == <<"a", "c", "t", "i", "v", "i", "t", "y">>
S_breakfast == <<"b", "r", "e", "a", "k", "f", "a", "s", "t">>
S_lunch == <<"l", "u", "n", "c", "h">>
S_dinner == <<"d", "i", "n", "n", "e", "r">>
S_snack == <<"s", "n", "a", "c", "k">>
\* the marker put in front of a timed task's title: f"⏰ {title}"
ClockPrefix == <<"⏰", " ">>

(* ----------------------------- datetimes ------------------------------- *)
\* datetime.weekday(): Monday is 0
weekday(dt) == (dt \div Day) % 7
\* midnight of the date of dt
DateOf(dt) == dt - (dt % Day)
\* a replacement of the hour that drops the minute
ReplaceHM_HourOnly(dt, h, m) == DateOf(dt) + h * Hour

\* dt.replace(hour=h, minute=m): the seconds of dt are kept
ReplaceHM(dt, h, m) == DateOf(dt) + h * Hour + m * Minute + (dt % Minute)
\* dt.replace(hour=h, minute=m, second=s)
ReplaceHMS(dt, h, m, s) == DateOf(dt) + h * Hour + m * Minute + s

\* datetime.time values
Time(h, m) == [hour |-> h, minute |-> m]
NoTime == [hour |-> -1, minute |-> -1]

\* times = {'breakfast': time(7, 30), 'lunch': ..., 'dinner': ..., 'snack': ...}
\* in the dict's insertion order
times ==
    << [name |-> S_breakfast, at |-> Time(7, 30)],
       [name |-> S_lunch, at |-> Time(11, 30)],
       [name |-> S_dinner, at |-> Time(18, 30)],
       [name |-> S_snack, at |-> Time(15, 0)] >>

\* day_map = {'monday': 0, ..., 'sunday': 6}
day_map ==
    << S_monday, S_tuesday, S_wednesday, S_thursday, S_friday, S_saturday, S_sunday >>
InDayMap(k) == \E i \in 1..7 : day_map[i] = k
DayMapOf(k) == (CHOOSE i \in 1..7 : day_map[i] = k) - 1

(* ------------------------------ matching ------------------------------- *)
\* first index >= i of s that holds no whitespace, Len(s) + 1 when there is none
RECURSIVE SkipSpaces(_, _)
SkipSpaces(s, i) ==
    IF i > Len(s) THEN i
    ELSE IF IsSpace(s[i]) THEN SkipSpaces(s, i + 1) ELSE i

NoMatch == [matched |-> FALSE, hour |-> -1, minute |-> -1, title |-> << >>]

\* re.match(r'^(\d{1,2}):(\d{2})\s*-\s*(.+)$', s)
TimePrefixMatch(s) ==
    LET n == Len(s)
        \* \d{1,2} followed by ':' : the position of the colon, 0 when none
        colon == IF n >= 3 /\ IsDigit(s[1]) /\ IsDigit(s[2]) /\ s[3] = ":" THEN 3
                 ELSE IF n >= 2 /\ IsDigit(s[1]) /\ s[2] = ":" THEN 2
                 ELSE 0
        hour == IF colon = 3 THEN 10 * DigitVal(s[1]) + DigitVal(s[2])
                ELSE DigitVal(s[1])
        dash == SkipSpaces(s, colon + 3)
        rest == SkipSpaces(s, dash + 1)
    IN  IF colon = 0 THEN NoMatch
        ELSE IF ~(n >= colon + 2 /\ IsDigit(s[colon + 1]) /\ IsDigit(s[colon + 2]))
        THEN NoMatch
        ELSE IF ~(dash <= n /\ s[dash] = "-") THEN NoMatch
        \* (.+) needs one character: \s* gives back the last space when only
        \* spaces follow the dash
        ELSE IF dash = n THEN NoMatch
        ELSE [matched |-> TRUE,
              hour |-> hour,
              minute |-> 10 * DigitVal(s[colon + 1]) + DigitVal(s[colon + 2]),
              title |-> IF rest <= n THEN SubSeq(s, rest, n) ELSE SubSeq(s, n, n)]

(* --------------------------- Python values ---------------------------- *)
\* the values a YAML plan holds: s is the text of a str, n the value of an
\* int (of a float: ten times its value), f the items of a dict in insertion
\* order
Str(x) == [kind |-> "str", s |-> x, n |-> 0, f |-> << >>]
Num(n) == [kind |-> "int", s |-> << >>, n |-> n, f |-> << >>]
Float(tenths) == [kind |-> "float", s |-> << >>, n |-> tenths, f |-> << >>]
Inf == [kind |-> "inf", s |-> << >>, n |-> 0, f |-> << >>]
NaN == [kind |-> "nan", s |-> << >>, n |-> 0, f |-> << >>]
None == [kind |-> "none", s |-> << >>, n |-> 0, f |-> << >>]
Dict(f) == [kind |-> "dict", s |-> << >>, n |-> 0, f |-> f]

\* a dict in insertion order
KV(k, v) == [k |-> k, v |-> v]
\* k in d
InDict(d, k) == \E i \in 1..Len(d) : d[i].k = k
\* d[k]
Get(d, k) == d[CHOOSE i \in 1..Len(d) : d[i].k = k].v

\* bool(v)
Bool(v) ==
    CASE v.kind = "str" -> Len(v.s) > 0
      [] v.kind \in {"int", "float"} -> v.n # 0
      [] v.kind = "none" -> FALSE
      [] v.kind = "dict" -> Len(v.f) > 0
      [] OTHER -> TRUE

\* the decimal text of a natural number
RECURSIVE NatText(_)
NatText(n) == IF n < 10 THEN << Digits[n + 1] >>
              ELSE NatText(n \div 10) \o << Digits[(n % 10) + 1] >>
\* str(n) of an int
IntText(n) == IF n < 0 THEN <<"-">> \o NatText(-n) ELSE NatText(n)
\* str(x) of a float with one decimal
FloatText(tenths) ==
    LET a == IF tenths < 0 THEN -tenths ELSE tenths
    IN  (IF tenths < 0 THEN <<"-">> ELSE << >>)
            \o NatText(a \div 10) \o <<".">> \o NatText(a % 10)

\* str(v); inside a dict a text is shown by repr(), between quotes (the
\* texts of the plans hold no quote and no backslash)
RECURSIVE PyStr(_)
PyStr(v) ==
    LET Repr(x) == IF x.kind = "str" THEN <<"'">> \o x.s \o <<"'">> ELSE PyStr(x)
        RECURSIVE Items(_)
        Items(i) == IF i > Len(v.f) THEN << >>
                    ELSE (IF i > 1 THEN <<",", " ">> ELSE << >>)
                            \o Repr(Str(v.f[i].k)) \o <<":", " ">> \o Repr(v.f[i].v)
                            \o Items(i + 1)
    IN  CASE v.kind = "str" -> v.s
          [] v.kind = "int" -> IntText(v.n)
          [] v.kind = "float" -> FloatText(v.n)
          [] v.kind = "inf" -> <<"i", "n", "f">>
          [] v.kind = "nan" -> <<"n", "a", "n">>
          [] v.kind = "none" -> <<"N", "o", "n", "e">>
          [] v.kind = "dict" -> <<"{">> \o Items(1) \o <<"}">>

\* str.strip() of the whitespace at both ends
Strip(s) ==
    LET a == SkipSpaces(s, 1)
        RECURSIVE Last(_)
        Last(i) == IF i >= a /\ IsSpace(s[i]) THEN Last(i - 1) ELSE i
    IN  IF a > Len(s) THEN << >> ELSE SubSeq(s, a, Last(Len(s)))

RECURSIVE DigitsVal(_)
DigitsVal(s) == IF Len(s) = 0 THEN 0
                ELSE 10 * DigitsVal(SubSeq(s, 1, Len(s) - 1)) + DigitVal(s[Len(s)])

Ok(n) == [res |-> "ok", n |-> n]
Err(e) == [res |-> e, n |-> 0]

\* int(s) of a text: whitespace at the ends is dropped, a sign may lead, the
\* rest is decimal digits (the texts of the plans hold no underscore)
IntOfText(s) ==
    LET t == Strip(s)
        signed == Len(t) > 0 /\ t[1] \in {"+", "-"}
        d == IF signed THEN SubSeq(t, 2, Len(t)) ELSE t
    IN  IF Len(d) > 0 /\ \A i \in 1..Len(d) : IsDigit(d[i])
        THEN Ok(IF signed /\ t[1] = "-" THEN -DigitsVal(d) ELSE DigitsVal(d))
        ELSE Err("ValueError")

\* int(v): a float is cut towards zero
PyInt(v) ==
    CASE v.kind = "int" -> Ok(v.n)
      [] v.kind = "str" -> IntOfText(v.s)
      [] v.kind = "float" -> Ok(IF v.n < 0 THEN -((-v.n) \div 10) ELSE v.n \div 10)
      [] v.kind = "nan" -> Err("ValueError")
      [] v.kind = "inf" -> Err("OverflowError")
      [] OTHER -> Err("TypeError")

\* s.split(':')
RECURSIVE SplitColon(_)
SplitColon(s) ==
    IF \E i \in 1..Len(s) : s[i] = ":"
    THEN LET c == CHOOSE i \in 1..Len(s) : s[i] = ":" /\ \A j \in 1..(i - 1) : s[j] # ":"
         IN  << SubSeq(s, 1, c - 1) >> \o SplitColon(SubSeq(s, c + 1, Len(s)))
    ELSE << s >>

S_item == <<"i", "t", "e", "m">>
S_title == <<"t", "i", "t", "l", "e">>
S_time == <<"t", "i", "m", "e">>
S_duration == <<"d", "u", "r", "a", "t", "i", "o", "n">>
S_Untitled == <<"U", "n", "t", "i", "t", "l", "e", "d">>

(* ------------------------------ parsing -------------------------------- *)
\* a check of the hour alone
ValidTime_HourOnly(h, m) == 0 <= h /\ h <= 23

\* 0 <= hour <= 23 and 0 <= minute <= 59
ValidTime(h, m) == 0 <= h /\ h <= 23 /\ 0 <= m /\ m <= 59

parse_item_with_time(item_data) ==
    LET m == TimePrefixMatch(item_data.s)
    IN  IF item_data.kind = "str"
        THEN IF m.matched
             THEN IF ~ValidTime(m.hour, m.minute)
                  THEN [title |-> item_data.s, time |-> NoTime, is_timed |-> FALSE]
                  ELSE [title |-> m.title, time |-> Time(m.hour, m.minute), is_timed |-> TRUE]
             ELSE [title |-> item_data.s, time |-> NoTime, is_timed |-> FALSE]
        ELSE [title |-> PyStr(item_data), time |-> NoTime, is_timed |-> FALSE]

\* what parse_activity_with_time gives: (title, activity_time, duration), or
\* the exception that leaves it
Parsed(title, activity_time, duration) ==
    [title |-> title, time |-> activity_time, duration |-> duration, raised |-> FALSE]
Raises(default_time, default_duration) ==
    [title |-> None, time |-> default_time, duration |-> default_duration, raised |-> TRUE]

\* the time of a record: hour, minute = map(int, time_str.split(':')), the
\* default when the value is no text (AttributeError), does not split in two
\* numbers (ValueError) or is out of range
TimeOfRecord(time_str, default_time) ==
    LET parts == SplitColon(time_str.s)
        hour == IntOfText(parts[1])
        minute == IntOfText(parts[2])
    IN  IF ~Bool(time_str) THEN default_time
        ELSE IF time_str.kind # "str" THEN default_time
        ELSE IF Len(parts) # 2 THEN default_time
        ELSE IF hour.res # "ok" \/ minute.res # "ok" THEN default_time
        ELSE IF ~ValidTime(hour.n, minute.n) THEN default_time
        ELSE Time(hour.n, minute.n)

\* duration <= 0 or duration > 1440
DurationOutOfRange(duration) == duration <= 0 \/ duration > MaxDuration

parse_activity_with_time(item_data, default_time, default_duration) ==
    LET d == item_data.f
        title == IF InDict(d, S_item) THEN Get(d, S_item)
                 ELSE IF InDict(d, S_title) THEN Get(d, S_title)
                 ELSE Str(S_Untitled)
        time_str == IF InDict(d, S_time) THEN Get(d, S_time) ELSE None
        activity_time == TimeOfRecord(time_str, default_time)
        duration == PyInt(IF InDict(d, S_duration) THEN Get(d, S_duration)
                          ELSE Num(default_duration))
        item_str == PyStr(item_data)
        m == TimePrefixMatch(item_str)
    IN  IF item_data.kind = "dict"
        THEN \* except (ValueError, TypeError): an OverflowError is not caught
             IF duration.res = "OverflowError" THEN Raises(default_time, default_duration)
             ELSE IF duration.res # "ok" THEN Parsed(title, activity_time, default_duration)
             ELSE IF DurationOutOfRange(duration.n)
             THEN Parsed(title, activity_time, default_duration)
             ELSE Parsed(title, activity_time, duration.n)
        ELSE IF m.matched
        THEN IF ~ValidTime(m.hour, m.minute)
             THEN Parsed(Str(item_str), default_time, default_duration)
             ELSE Parsed(Str(m.title), Time(m.hour, m.minute), default_duration)
        ELSE Parsed(Str(item_str), default_time, default_duration)


(* ------------------------------ the plan ------------------------------- *)
\* values of a day's fields: a list of raw entries or a text
ListV(l) == [t |-> "list", l |-> l, s |-> << >>]
StrV(s) == [t |-> "str", l |-> << >>, s |-> s]
\* bool(v) of a field value: an empty list and an empty text are false
Truthy(v) == IF v.t = "list" THEN Len(v.l) > 0 ELSE Len(v.s) > 0
\* next((k for k in d.keys() if k.lower() == name), None): 0 stands for None
FirstKeyLower(d, name) ==
    IF \E i \in 1..Len(d) : Lower(d[i].k) = name
    THEN CHOOSE i \in 1..Len(d) :
            /\ Lower(d[i].k) = name
            /\ \A j \in 1..(i - 1) : Lower(d[j].k) # name
    ELSE 0

K_Things == <<"T", "h", "i", "n", "g", "s">>
K_Breakfast == <<"B", "r", "e", "a", "k", "f", "a", "s", "t">>
K_Activity == <<"A", "c", "t", "i", "v", "i", "t", "y">>
T_Oatmeal == <<"O", "a", "t", "m", "e", "a", "l">>
T_Pasta == <<"P", "a", "s", "t", "a">>
T_BuyMilk == <<"B", "u", "y", " ", "m", "i", "l", "k">>
R_CallDentist == <<"1", "4", ":", "3", "0", " ", "-", " ", "C", "a", "l", "l", " ",
                   "d", "e", "n", "t", "i", "s", "t">>
R_GameNight == <<"1", "9", ":", "0", "0", " ", "-", " ", "B", "o", "a", "r", "d", " ",
                 "g", "a", "m", "e", " ", "n", "i", "g", "h", "t">>

\* {monday: {Breakfast: Oatmeal, Things: [14:30 - Call dentist, Buy milk],
\*           Activity: [19:00 - Board game night]}}
PlanWeekStart ==
    << [key |-> S_monday,
        data |-> << KV(K_Breakfast, StrV(T_Oatmeal)),
                    KV(K_Things, ListV(<< Str(R_CallDentist), Str(T_BuyMilk) >>)),
                    KV(K_Activity, ListV(<< Str(R_GameNight) >>)) >>] >>
\* {monday: {dinner: Pasta}}
PlanDinner ==
    << [key |-> S_monday, data |-> << KV(S_dinner, StrV(T_Pasta)) >>] >>
\* {monday: {dinner: Pasta}, tuesday: {dinner: Pasta}}
PlanTwoDinners ==
    << [key |-> S_monday, data |-> << KV(S_dinner, StrV(T_Pasta)) >>],
       [key |-> S_tuesday, data |-> << KV(S_dinner, StrV(T_Pasta)) >>] >>
\* {monday: {things: [Buy milk, Buy milk]}}
PlanSameTask ==
    << [key |-> S_monday,
        data |-> << KV(S_things, ListV(<< Str(T_BuyMilk), Str(T_BuyMilk) >>)) >>] >>
\* every weekday, Monday with one plain task and the other days with nothing
PlanAllDays ==
    [i \in 1..7 |->
        [key |-> Capitalize(day_map[i]),
         data |-> IF i = 1 THEN << KV(S_things, ListV(<< Str(T_BuyMilk) >>)) >>
                  ELSE << >>]]

\* a key that is no weekday
K_someday == <<"s", "o", "m", "e", "d", "a", "y">>
\* {monday: {things: [Buy milk]}, someday: {things: [Oatmeal], dinner: Pasta}}
PlanUnknownAfterDay ==
    << [key |-> S_monday, data |-> << KV(S_things, ListV(<< Str(T_BuyMilk) >>)) >>],
       [key |-> K_someday,
        data |-> << KV(S_things, ListV(<< Str(T_Oatmeal) >>)),
                    KV(S_dinner, StrV(T_Pasta)) >>] >>
\* {someday: {things: [Oatmeal]}, monday: {things: [Buy milk]}}
PlanUnknownFirst ==
    << [key |-> K_someday, data |-> << KV(S_things, ListV(<< Str(T_Oatmeal) >>)) >>],
       [key |-> S_monday, data |-> << KV(S_things, ListV(<< Str(T_BuyMilk) >>)) >>] >>
\* {allweek: {things: [Buy milk]}, someday: {things: [Oatmeal]}}
PlanUnknownAfterAllweek ==
    << [key |-> S_allweek, data |-> << KV(S_things, ListV(<< Str(T_BuyMilk) >>)) >>],
       [key |-> K_someday, data |-> << KV(S_things, ListV(<< Str(T_Oatmeal) >>)) >>] >>
\* {monday: {things: [{item: Oatmeal}],
\*           activity: [{item: Pasta, duration: .inf}, {item: '', title: Pasta}]}}
PlanRecords ==
    << [key |-> S_monday,
        data |-> << KV(S_things, ListV(<< Dict(<< KV(S_item, Str(T_Oatmeal)) >>) >>)),
                    KV(S_activity,
                       ListV(<< Dict(<< KV(S_item, Str(T_Pasta)), KV(S_duration, Inf) >>),
                                Dict(<< KV(S_item, Str(<< >>)),
                                        KV(S_title, Str(T_Pasta)) >>) >>)) >>] >>

\* field names in other letter cases
K_BREAKFAST == <<"B", "R", "E", "A", "K", "F", "A", "S", "T">>
K_tHiNgS == <<"t", "H", "i", "N", "g", "S">>
K_ACTIVITY == <<"A", "C", "T", "I", "V", "I", "T", "Y">>
K_Lunch == <<"L", "u", "n", "c", "h">>
T_GameNight == <<"B", "o", "a", "r", "d", " ", "g", "a", "m", "e", " ", "n", "i", "g", "h", "t">>
\* {monday: {BREAKFAST: Oatmeal, tHiNgS: [Buy milk], Lunch: Pasta, snack: Oatmeal,
\*           ACTIVITY: [Board game night]}}
PlanFieldCase ==
    << [key |-> S_monday,
        data |-> << KV(K_BREAKFAST, StrV(T_Oatmeal)),
                    KV(K_tHiNgS, ListV(<< Str(T_BuyMilk) >>)),
                    KV(K_Lunch, StrV(T_Pasta)),
                    KV(S_snack, StrV(T_Oatmeal)),
                    KV(K_ACTIVITY, ListV(<< Str(T_GameNight) >>)) >>] >>

\* {allweek: {things: [14:30 - Call dentist], dinner: Pasta,
\*            activity: [Board game night]}}
PlanAllweekTimed ==
    << [key |-> S_allweek,
        data |-> << KV(S_things, ListV(<< Str(R_CallDentist) >>)),
                    KV(S_dinner, StrV(T_Pasta)),
                    KV(S_activity, ListV(<< Str(T_GameNight) >>)) >>] >>

\* a day whose value is None (a key with nothing after it in the YAML file):
\* it has no fields, and asking it for its keys raises
NoneDay(key) == [key |-> key, data |-> << >>, none |-> TRUE]
\* the value of the day is a mapping
IsMapping(day) == "none" \notin DOMAIN day
\* {monday: {things: [Buy milk]}, tuesday: None, wednesday: {dinner: Pasta}}
PlanNoneDay ==
    << [key |-> S_monday, data |-> << KV(S_things, ListV(<< Str(T_BuyMilk) >>)) >>],
       NoneDay(S_tuesday),
       [key |-> S_wednesday, data |-> << KV(S_dinner, StrV(T_Pasta)) >>] >>

\* {monday: {dinner: Pasta}, allweek: {things: [14:30 - Call dentist, Buy milk],
\*                                   dinner: Pasta, activity: [19:00 - Board game night]}}
PlanAllweekLast ==
    << [key |-> S_monday, data |-> << KV(S_dinner, StrV(T_Pasta)) >>],
       [key |-> S_allweek,
        data |-> << KV(S_things, ListV(<< Str(R_CallDentist), Str(T_BuyMilk) >>)),
                    KV(S_dinner, StrV(T_Pasta)),
                    KV(S_activity, ListV(<< Str(R_GameNight) >>)) >>] >>

\* {monday: {things: [14:30 - Call dentist], activity: [14:30 - Call dentist]}}
PlanSameTitle ==
    << [key |-> S_monday,
        data |-> << KV(S_things, ListV(<< Str(R_CallDentist) >>)),
                    KV(S_activity, ListV(<< Str(R_CallDentist) >>)) >>] >>

\* a clock value: week w, weekday d (Monday 0), hh:mm:ss
At(w, d, hh, mm, ss) == w * Week + d * Day + hh * Hour + mm * Minute + ss

\* the runs that are explored: a plan and the clock when the first run starts
Scenarios ==
    << [plan |-> PlanWeekStart, now |-> At(1, 6, 10, 0, 0)],
       [plan |-> PlanWeekStart, now |-> At(1, 0, 14, 20, 0)],
       [plan |-> PlanWeekStart, now |-> At(1, 0, 14, 30, 0)],
       [plan |-> PlanWeekStart, now |-> At(1, 0, 21, 0, 7)],
       [plan |-> PlanDinner, now |-> At(1, 6, 10, 0, 0)],
       [plan |-> PlanTwoDinners, now |-> At(1, 6, 10, 0, 0)],
       [plan |-> PlanSameTask, now |-> At(1, 6, 10, 0, 0)],
       [plan |-> PlanAllDays, now |-> At(1, 6, 23, 59, 59)],
       [plan |-> PlanUnknownAfterDay, now |-> At(1, 6, 10, 0, 0)],
       [plan |-> PlanUnknownFirst, now |-> At(1, 6, 10, 0, 0)],
       [plan |-> PlanUnknownAfterAllweek, now |-> At(1, 6, 10, 0, 0)],
       [plan |-> PlanRecords, now |-> At(1, 6, 10, 0, 0)] >>
    \o [d \in 1..7 |-> [plan |-> PlanAllDays, now |-> At(1, d - 1, 20, 0, 0)]]
    \o << [plan |-> PlanFieldCase, now |-> At(1, 6, 10, 0, 0)],
          [plan |-> PlanAllweekTimed, now |-> At(1, 6, 10, 0, 0)],
          [plan |-> PlanNoneDay, now |-> At(1, 6, 10, 0, 0)],
          [plan |-> PlanAllweekLast, now |-> At(1, 6, 10, 0, 0)],
          [plan |-> PlanSameTitle, now |-> At(1, 6, 10, 0, 0)] >>

\* UTC offset of America/Chicago in hours: 5 under daylight saving time, else 6
UtcOffsets == {5, 6}

(* ------------------------------- state --------------------------------- *)
VARIABLES
    scn,            \* which of the Scenarios this behaviour runs
    tz,             \* hours America/Chicago is behind UTC
    now,            \* the wall clock, datetime.now()
    pc,             \* where the script is
    run,            \* invocations of the script so far
    exit,           \* what main returned last
    stats,          \* createtask's stats dict
    my_tasks_tasks, \* titles of the tasks listed before the loop
    di,             \* index of the day in taskdict.items()
    ii,             \* index of the entry (or meal) within the category
    today,          \* today of the last weekday key
    due_datetime,   \* due_datetime of this day, NoDT for None
    whendue,        \* whendue: a text, None, or not bound yet
    remote,         \* what the task list and the calendars hold, in creation order
    last,           \* what the last step did with its entry
    completed,      \* the stats returned by the runs that reached the end of the loop
    jumps,          \* clock jumps so far
    fails,          \* failed sink calls so far
    items,          \* the task lists that tasklists().list returned
    outcomes,       \* how each entry of this run ended, in the order of the steps
    raw,            \* the value handed to a parser
    parsed          \* what the parser returned for it

vars == << scn, tz, now, pc, run, exit, stats, my_tasks_tasks, di, ii, today,
           due_datetime, whendue, remote, last, completed, jumps, fails, items,
           outcomes, raw, parsed >>

\* the variables of the parsers on their own
parseVars == << raw, parsed >>

taskdict == Scenarios[scn].plan

NoDT == -1
\* whendue: due_datetime.isoformat() + 'Z' is the naive local value read as UTC
WhenNone == [tag |-> "None", naive |-> NoDT, zone |-> ""]
WhenUnbound == [tag |-> "Unbound", naive |-> NoDT, zone |-> ""]
IsoZ(dt) == [tag |-> "str", naive |-> dt, zone |-> "Z"]
\* {'dateTime': dt.isoformat(), 'timeZone': 'America/Chicago'}
IsoLocal(dt) == [tag |-> "str", naive |-> dt, zone |-> "America/Chicago"]
\* the instant (seconds, UTC) a timestamp text denotes to the calendar
Instant(ts) == IF ts.zone = "Z" THEN ts.naive ELSE ts.naive + tz * Hour

ZeroStats == [tasks |-> 0, timed_tasks |-> 0, meals |-> 0, activities |-> 0, skipped |-> 0]
NoLast == [cat |-> "none", out |-> "none", di |-> 0, idx |-> 0, resolved |-> NoDT,
           nowAt |-> NoDT, time_min |-> WhenNone, time_max |-> WhenNone,
           sink |-> "", summary |-> << >>]

\* items before tasklists().list has returned, and after
NoItems == [bound |-> FALSE, l |-> << >>]
Items(l) == [bound |-> TRUE, l |-> l]
NotParsed == [fn |-> "none"]

Init ==
    /\ scn \in 1..Len(Scenarios)
    /\ tz \in UtcOffsets
    /\ now = Scenarios[scn].now
    /\ pc = "idle"
    /\ run = 0
    /\ exit = 0
    /\ stats = ZeroStats
    /\ my_tasks_tasks = << >>
    /\ di = 0
    /\ ii = 0
    /\ today = NoDT
    /\ due_datetime = NoDT
    /\ whendue = WhenUnbound
    /\ remote = << >>
    /\ last = NoLast
    /\ completed = << >>
    /\ jumps = 0
    /\ fails = 0
    /\ items = NoItems
    /\ outcomes = << >>
    /\ raw = None
    /\ parsed = NotParsed


(* ------------------------------ the sinks ------------------------------ *)
NoReminder == -1
\* a task of the 'My Stuff' list (tasks().insert)
TaskEntry(title, due, src) ==
    [sink |-> "tasks", summary |-> title, description |-> "", start |-> WhenNone,
     end |-> WhenNone, reminder |-> NoReminder, due |-> due, run |-> run, src |-> src]
\* an event without its reminder
EventEntry_NoReminder(calendarId, summary, description, start, end, reminder, src) ==
    [sink |-> calendarId, summary |-> summary, description |-> description,
     start |-> start, end |-> end, reminder |-> NoReminder, due |-> WhenNone,
     run |-> run, src |-> src]

\* an event of a calendar (events().insert)
EventEntry(calendarId, summary, description, start, end, reminder, src) ==
    [sink |-> calendarId, summary |-> summary, description |-> description,
     start |-> start, end |-> end, reminder |-> reminder, due |-> WhenNone,
     run |-> run, src |-> src]

\* events().list(calendarId, timeMin, timeMax, singleEvents=True): the events
\* of the calendar that end after timeMin and start before timeMax
EventsList(calendarId, time_min, time_max) ==
    { i \in 1..Len(remote) :
        /\ remote[i].sink = calendarId
        /\ Instant(remote[i].end) > Instant(time_min)
        /\ Instant(remote[i].start) < Instant(time_max) }

\* any(e.get('summary') == summary for e in events)
event_exists(events, summary) == \E i \in events : remote[i].summary = summary

\* tasks().list(tasklist=my_tasks_id): the titles of the list's tasks
TasksList ==
    LET idx == { i \in 1..Len(remote) : remote[i].sink = "tasks" }
        RECURSIVE Titles(_)
        Titles(i) == IF i > Len(remote) THEN << >>
                     ELSE IF i \in idx THEN << remote[i].summary >> \o Titles(i + 1)
                     ELSE Titles(i + 1)
    IN  Titles(1)

(* --------------------------- date resolution --------------------------- *)
\* days_ahead without the wrap to the next week
days_ahead_NoWrap(target_weekday, current_weekday) == target_weekday - current_weekday

\* days_ahead = target_weekday - current_weekday; if days_ahead < 0: += 7
days_ahead(target_weekday, current_weekday) ==
    IF target_weekday - current_weekday < 0
    THEN target_weekday - current_weekday + 7
    ELSE target_weekday - current_weekday

\* target_date = today + timedelta(days=days_ahead);
\* due_datetime = target_date.replace(hour=20, minute=0, second=0, microsecond=0)
DueDatetime(td, target_weekday) ==
    ReplaceHMS(td + days_ahead(target_weekday, weekday(td)) * Day, DueHour, 0, 0)

\* a timed task that is never pushed
PushTimedTask_Never(task_datetime, clock) == task_datetime

\* if task_datetime < datetime.now(): task_datetime += timedelta(days=7)
PushTimedTask(task_datetime, clock) ==
    IF task_datetime < clock THEN task_datetime + PushDays * Day ELSE task_datetime
\* a meal in the past that is pushed by two weeks
PushMeal_TwoWeeks(mealduedatetime, clock) ==
    IF mealduedatetime < clock THEN mealduedatetime + 2 * PushDays * Day
    ELSE mealduedatetime

\* if mealduedatetime < datetime.now(): mealduedatetime += timedelta(days=7)
PushMeal(mealduedatetime, clock) ==
    IF mealduedatetime < clock THEN mealduedatetime + PushDays * Day ELSE mealduedatetime
\* if activity_datetime < datetime.now(): activity_datetime += timedelta(days=7)
PushActivity(activity_datetime, clock) ==
    IF activity_datetime < clock THEN activity_datetime + PushDays * Day
    ELSE activity_datetime

\* a window taken from the day of the clock
WindowMin_FromClock(dt) == IsoZ(ReplaceHMS(now, 0, 0, 0))

\* time_min, time_max of a timed task and of a meal:
\* dt.replace(hour=0, minute=0, second=0).isoformat() + 'Z' and the same of dt + 1 day
WindowMin(dt) == IsoZ(ReplaceHMS(dt, 0, 0, 0))
WindowMax(dt) == IsoZ(ReplaceHMS(dt + Day, 0, 0, 0))
\* time_min, time_max of an activity: datetime.combine(target_date, time(0, 0)) and
\* datetime.combine(target_date + timedelta(days=1), time(23, 59)), each + 'Z'
ActivityWindowMin(dt) == IsoZ(DateOf(dt))
ActivityWindowMax(dt) == IsoZ(DateOf(dt) + Day + 23 * Hour + 59 * Minute)

(* ------------------------------ the run -------------------------------- *)
NoExit == -1

\* time passing while a call is waited for
Elapse(j) ==
    /\ jumps + j <= MaxJumps
    /\ jumps' = jumps + j
    /\ now' = now + j * ClockJump

\* f: "ok" when the step's sink calls succeed, else the call that raises
Failing(f) ==
    IF f = "ok" THEN fails' = fails
    ELSE fails < MaxFails /\ fails' = fails + 1

\* a run that goes on to its setup without a session
Authenticate_GoesOn ==
    /\ pc \in {"idle", "exited"}
    /\ run < MaxRuns
    /\ run' = run + 1
    /\ \E j \in {0, 1} : (run = 0 => j = 0) /\ Elapse(j)
    /\ stats' = ZeroStats
    /\ my_tasks_tasks' = << >>
    /\ di' = 0
    /\ ii' = 0
    /\ today' = NoDT
    /\ due_datetime' = NoDT
    /\ whendue' = WhenUnbound
    /\ last' = NoLast
    /\ items' = NoItems
    /\ outcomes' = << >>
    /\ pc' = "setup"
    /\ \E ok \in BOOLEAN : exit' = IF ok THEN NoExit ELSE 1
    /\ UNCHANGED << scn, tz, remote, completed, fails, parseVars >>

\* main calls createtask: credentials are checked and the session is acquired
Authenticate ==
    /\ pc \in {"idle", "exited"}
    /\ run < MaxRuns
    /\ run' = run + 1
    /\ \E j \in {0, 1} : (run = 0 => j = 0) /\ Elapse(j)
    /\ stats' = ZeroStats
    /\ my_tasks_tasks' = << >>
    /\ di' = 0
    /\ ii' = 0
    /\ today' = NoDT
    /\ due_datetime' = NoDT
    /\ whendue' = WhenUnbound
    /\ last' = NoLast
    /\ items' = NoItems
    /\ outcomes' = << >>
    /\ \E ok \in BOOLEAN :
         IF ok THEN pc' = "setup" /\ exit' = NoExit
         \* FileNotFoundError, PermissionError, a failed refresh or OAuth flow:
         \* the exception reaches main, which returns 1
         ELSE pc' = "exited" /\ exit' = 1
    /\ UNCHANGED << scn, tz, remote, completed, fails, parseVars >>

\* the title looked for among the task lists
My_Stuff == <<"M", "y", " ", "S", "t", "u", "f", "f">>
L_my_stuff == <<"m", "y", " ", "s", "t", "u", "f", "f">>
L_Groceries == <<"G", "r", "o", "c", "e", "r", "i", "e", "s">>
\* what tasklists().list may return: the titles of the account's task lists
TaskListChoices ==
    << << >>, << L_Groceries >>, << L_Groceries, L_my_stuff >>, << L_Groceries, My_Stuff >> >>

\* a lookup of the list that ignores the case of the title
HasMyStuff_AnyCase(lists) == \E i \in 1..Len(lists) : Lower(lists[i]) = Lower(My_Stuff)

\* my_tasks = next((item for item in items if item['title'] == 'My Stuff'), None)
HasMyStuff(lists) == \E i \in 1..Len(lists) : lists[i] = My_Stuff

\* the services are built, the task lists are fetched, 'My Stuff' is looked
\* up and its tasks are listed.  raises: "no" when no call raises, "setup"
\* when a call inside the try raises, "tasks" when tasks().list raises
Setup ==
    /\ pc = "setup"
    /\ \E c \in 1..Len(TaskListChoices), raises \in {"no", "setup", "tasks"} :
         LET fetched == TaskListChoices[c]
         IN  \* except HttpError / except Exception: return stats
             IF raises = "setup"
             THEN /\ c = 1
                  /\ pc' = "exited"
                  /\ exit' = 0
                  /\ UNCHANGED << my_tasks_tasks, di, items >>
             \* if not items: return stats;  if not my_tasks: return stats
             ELSE IF Len(fetched) = 0 \/ ~HasMyStuff(fetched)
             THEN /\ raises = "no"
                  /\ items' = Items(fetched)
                  /\ pc' = "exited"
                  /\ exit' = 0
                  /\ UNCHANGED << my_tasks_tasks, di >>
             \* service.tasks().list(...).execute() is outside the try: the
             \* exception reaches main, which returns 1
             ELSE IF raises = "tasks"
             THEN /\ items' = Items(fetched)
                  /\ pc' = "exited"
                  /\ exit' = 1
                  /\ UNCHANGED << my_tasks_tasks, di >>
             ELSE /\ items' = Items(fetched)
                  /\ my_tasks_tasks' = TasksList
                  /\ pc' = "day"
                  /\ di' = 1
                  /\ exit' = exit
    /\ UNCHANGED << scn, tz, now, run, stats, ii, today, due_datetime, whendue,
                    remote, last, completed, jumps, fails, outcomes, parseVars >>

\* a day loop that resolves allweek like a Monday
StartDay_AllweekAsMonday ==
    /\ pc = "day"
    /\ di <= Len(taskdict)
    /\ LET day_name_lower == Lower(taskdict[di].key)
           target == IF day_name_lower = S_allweek THEN S_monday ELSE day_name_lower
       IN  IF InDayMap(target)
           THEN /\ today' = now
                /\ due_datetime' = DueDatetime(now, DayMapOf(target))
                /\ whendue' = IsoZ(due_datetime')
           ELSE /\ due_datetime' = NoDT
                /\ UNCHANGED << today, whendue >>
    /\ pc' = "things"
    /\ ii' = 1
    /\ last' = NoLast
    /\ UNCHANGED << scn, tz, now, run, exit, stats, my_tasks_tasks, di, remote,
                    completed, jumps, fails, items, outcomes, parseVars >>

\* for day_name, day_data in taskdict.items(): the due date of the day
StartDay ==
    /\ pc = "day"
    /\ di <= Len(taskdict)
    /\ LET day_name_lower == Lower(taskdict[di].key)
       IN  IF day_name_lower # S_allweek
           THEN IF InDayMap(day_name_lower)
                THEN /\ today' = now
                     /\ due_datetime' = DueDatetime(now, DayMapOf(day_name_lower))
                     /\ whendue' = IsoZ(due_datetime')
                ELSE /\ due_datetime' = NoDT
                     /\ UNCHANGED << today, whendue >>
           ELSE /\ due_datetime' = NoDT
                /\ whendue' = WhenNone
                /\ UNCHANGED today
    /\ pc' = "things"
    /\ ii' = 1
    /\ last' = NoLast
    /\ UNCHANGED << scn, tz, now, run, exit, stats, my_tasks_tasks, di, remote,
                    completed, jumps, fails, items, outcomes, parseVars >>

\* a return that waits for a run to have counted something
Return_OnlyWithResults ==
    /\ pc = "day"
    /\ di > Len(taskdict)
    /\ stats # ZeroStats
    /\ pc' = "exited"
    /\ exit' = 0
    /\ completed' = Append(completed, stats)
    /\ last' = NoLast
    /\ UNCHANGED << scn, tz, now, run, stats, my_tasks_tasks, di, ii, today,
                    due_datetime, whendue, remote, jumps, fails, items, outcomes,
                    parseVars >>

\* the loop is over: return stats, main prints the summary and returns 0
Return ==
    /\ pc = "day"
    /\ di > Len(taskdict)
    /\ pc' = "exited"
    /\ exit' = 0
    /\ completed' = Append(completed, stats)
    /\ last' = NoLast
    /\ UNCHANGED << scn, tz, now, run, stats, my_tasks_tasks, di, ii, today,
                    due_datetime, whendue, remote, jumps, fails, items, outcomes,
                    parseVars >>


(* ---------------------------- the day's entries ------------------------ *)
day_data == taskdict[di].data

\* things_key = next((k for k in day_data.keys() if k.lower() == 'things'), None);
\* the list that is walked when things_key and day_data[things_key]
ThingsOf(data) ==
    LET things_key == FirstKeyLower(data, S_things)
    IN  IF things_key # 0 /\ Truthy(data[things_key].v)
        THEN data[things_key].v.l ELSE << >>
Things == ThingsOf(day_data)

\* the same for 'activity'
ActivitiesOf(data) ==
    LET activity_key == FirstKeyLower(data, S_activity)
    IN  IF activity_key # 0 /\ Truthy(data[activity_key].v)
        THEN data[activity_key].v.l ELSE << >>
Activities == ActivitiesOf(day_data)

\* a lookup of the meal under its lower-case name only
MealKeyOf_LowerOnly(data, meal_name) == Lower(meal_name)

\* meal_key = meal_name.lower() if meal_name.lower() in day_data
\*            else meal_name.capitalize()
MealKeyOf(data, meal_name) ==
    IF InDict(data, Lower(meal_name)) THEN Lower(meal_name) ELSE Capitalize(meal_name)
MealKey(meal_name) == MealKeyOf(day_data, meal_name)

\* a skip that also counts a created task
Bump_SkipCountsTask(counter) ==
    IF counter = "skipped" THEN [stats EXCEPT !.skipped = @ + 1, !.tasks = @ + 1]
    ELSE [stats EXCEPT ![counter] = @ + 1]

\* a meal that is counted twice
Bump_MealTwice(counter) ==
    IF counter = "meals" THEN [stats EXCEPT !.meals = @ + 2]
    ELSE [stats EXCEPT ![counter] = @ + 1]

Bump(counter) == [stats EXCEPT ![counter] = @ + 1]

\* what a step records about its entry
Did(cat, out, resolved, clock, time_min, time_max, sink, summary) ==
    [cat |-> cat, out |-> out, di |-> di, idx |-> ii, resolved |-> resolved,
     nowAt |-> clock, time_min |-> time_min, time_max |-> time_max,
     sink |-> sink, summary |-> summary]

\* a day whose activities are walked before its meals
NextCategory_ActivitiesBeforeMeals(category) ==
    CASE category = "things" -> "activities"
      [] category = "activities" -> "meals"
      [] category = "meals" -> "day"

\* the order of the three blocks in the body of the day loop: things, then
\* meals, then activities, then the next day
NextCategory(category) ==
    CASE category = "things" -> "meals"
      [] category = "meals" -> "activities"
      [] category = "activities" -> "day"

\* the outcomes with the one of this step, when the step reconciled an entry
Recorded(field) ==
    IF last'.cat = "none" THEN outcomes
    ELSE Append(outcomes, [src |-> << di, field, ii >>, out |-> last'.out])

\* a loop that gives up the entry after a failed one
NextEntry_SkipsAfterError(out, i) == IF out = "error" THEN i + 2 ELSE i + 1

\* the for loop takes the next entry, whether the body ended normally or by
\* the continue of its except clause
NextEntry(out, i) == i + 1

\* 'summary': title of an event body: a title that is None is sent as null
\* and leaves the event without a summary
Summary(title) == IF title.kind = "str" THEN title.s ELSE << >>

\* an exception inside the try of an entry: it is logged and the loop goes on
Raised(cat, f, j) ==
    /\ f = "ok"
    /\ j = 0
    /\ last' = Did(cat, "error", NoDT, now, WhenNone, WhenNone, "", << >>)
    /\ UNCHANGED << stats, remote >>

\* a creation that replaces what the sinks hold
CreateIfAbsent_Replaces(cat, counter, calendarId, event, resolved, time_min, time_max, f) ==
    IF f = "list"
    THEN /\ last' = Did(cat, "error", resolved, now, time_min, time_max, calendarId,
                        event.summary)
         /\ UNCHANGED << stats, remote >>
    ELSE IF ~event_exists(EventsList(calendarId, time_min, time_max), event.summary)
    THEN IF f = "insert"
         THEN /\ last' = Did(cat, "error", resolved, now, time_min, time_max, calendarId,
                             event.summary)
              /\ UNCHANGED << stats, remote >>
         ELSE /\ remote' = << event >>
              /\ stats' = Bump(counter)
              /\ last' = Did(cat, "created", resolved, now, time_min, time_max,
                             calendarId, event.summary)
    ELSE /\ f = "ok"
         /\ stats' = Bump("skipped")
         /\ last' = Did(cat, "skipped", resolved, now, time_min, time_max, calendarId,
                        event.summary)
         /\ UNCHANGED remote

\* events().list for the window, the comparison of the summaries, and
\* events().insert when no event of the window has the summary
CreateIfAbsent(cat, counter, calendarId, event, resolved, time_min, time_max, f) ==
    IF f = "list"
    THEN /\ last' = Did(cat, "error", resolved, now, time_min, time_max, calendarId,
                        event.summary)
         /\ UNCHANGED << stats, remote >>
    ELSE IF ~event_exists(EventsList(calendarId, time_min, time_max), event.summary)
    THEN IF f = "insert"
         THEN /\ last' = Did(cat, "error", resolved, now, time_min, time_max, calendarId,
                             event.summary)
              /\ UNCHANGED << stats, remote >>
         ELSE /\ remote' = Append(remote, event)
              /\ stats' = Bump(counter)
              /\ last' = Did(cat, "created", resolved, now, time_min, time_max,
                             calendarId, event.summary)
    ELSE /\ f = "ok"
         /\ stats' = Bump("skipped")
         /\ last' = Did(cat, "skipped", resolved, now, time_min, time_max, calendarId,
                        event.summary)
         /\ UNCHANGED remote

\* a time-specific task that is stored and looked up under its bare title
TimedTask_BareTitle(title, item_time, f) ==
    LET task_datetime == PushTimedTask(
                            ReplaceHM(due_datetime, item_time.hour, item_time.minute), now)
        start_time == IsoLocal(task_datetime - LeadMinutes * Minute)
        end_time == IsoLocal(task_datetime)
        event == EventEntry("primary", title, "Task - Complete by this time",
                            start_time, end_time, ReminderMinutes, << di, "things", ii >>)
    IN  CreateIfAbsent("timed", "timed_tasks", "primary", event, task_datetime,
                       WindowMin(task_datetime), WindowMax(task_datetime), f)

\* a time-specific task becomes an event of the primary calendar
TimedTask(title, item_time, f) ==
    LET task_datetime == PushTimedTask(
                            ReplaceHM(due_datetime, item_time.hour, item_time.minute), now)
        start_time == IsoLocal(task_datetime - LeadMinutes * Minute)
        end_time == IsoLocal(task_datetime)
        event == EventEntry("primary", ClockPrefix \o title, "Task - Complete by this time",
                            start_time, end_time, ReminderMinutes, << di, "things", ii >>)
    IN  CreateIfAbsent("timed", "timed_tasks", "primary", event, task_datetime,
                       WindowMin(task_datetime), WindowMax(task_datetime), f)

\* a regular task that is inserted without a look at the fetched titles
PlainTask_NoLookup(title, f) ==
    LET due == IF whendue.tag = "str" THEN whendue ELSE WhenNone
        did(out) == Did("plain", out, due.naive, today, WhenNone, WhenNone, "tasks", title)
    IN  IF f = "insert"
        THEN /\ last' = did("error")
             /\ UNCHANGED << stats, remote >>
        ELSE /\ f = "ok"
             /\ remote' = Append(remote, TaskEntry(title, due, << di, "things", ii >>))
             /\ stats' = Bump("tasks")
             /\ last' = did("created")

\* a regular task goes to the task list unless its title is among the titles
\* listed before the loop
PlainTask(title, f) ==
    LET due == IF whendue.tag = "str" THEN whendue ELSE WhenNone
        did(out) == Did("plain", out, due.naive, today, WhenNone, WhenNone, "tasks", title)
    IN  IF Len(my_tasks_tasks) > 0 /\ \E i \in 1..Len(my_tasks_tasks) : my_tasks_tasks[i] = title
        THEN /\ f = "ok"
             /\ stats' = Bump("skipped")
             /\ last' = did("skipped")
             /\ UNCHANGED remote
        ELSE IF f = "insert"
        THEN /\ last' = did("error")
             /\ UNCHANGED << stats, remote >>
        ELSE /\ f = "ok"
             /\ remote' = Append(remote, TaskEntry(title, due, << di, "things", ii >>))
             /\ stats' = Bump("tasks")
             /\ last' = did("created")

\* day_data.keys() of a day that is no mapping raises AttributeError, outside
\* every try of createtask: the exception reaches main, which returns 1
DayRaises ==
    /\ pc = "things"
    /\ ~IsMapping(taskdict[di])
    /\ pc' = "exited"
    /\ exit' = 1
    /\ last' = NoLast
    /\ UNCHANGED << scn, tz, now, run, stats, my_tasks_tasks, di, ii, today,
                    due_datetime, whendue, remote, completed, jumps, fails, items,
                    outcomes, parseVars >>

\* title, item_time, is_timed = parse_item_with_time(item_data), for the
\* things of every day of every plan
ParsedThings ==
    [s \in 1..Len(Scenarios) |->
       [d \in 1..Len(Scenarios[s].plan) |->
          [i \in 1..Len(ThingsOf(Scenarios[s].plan[d].data)) |->
              parse_item_with_time(ThingsOf(Scenarios[s].plan[d].data)[i])]]]

\* one entry of the day's things
ProcessThing ==
    /\ pc = "things"
    /\ ii <= Len(Things)
    /\ \E f \in {"ok", "list", "insert"}, j \in {0, 1} :
         /\ Failing(f)
         /\ Elapse(j)
         /\ LET p == ParsedThings[scn][di][ii]
            IN  \* whendue is not bound when no key before bound it: NameError
                IF whendue.tag = "Unbound" THEN Raised("thing", f, j)
                ELSE IF p.is_timed /\ whendue.tag = "str"
                \* due_datetime is None under a key that is no weekday
                THEN IF due_datetime = NoDT THEN Raised("timed", f, j)
                     ELSE TimedTask(p.title, p.time, f)
                ELSE PlainTask(p.title, f)
    /\ outcomes' = Recorded("things")
    /\ ii' = NextEntry(last'.out, ii)
    /\ UNCHANGED << scn, tz, pc, run, exit, my_tasks_tasks, di, today, due_datetime,
                    whendue, completed, items, parseVars >>

EndThings ==
    /\ pc = "things"
    /\ IsMapping(taskdict[di])
    /\ ii > Len(Things)
    /\ pc' = NextCategory("things")
    /\ ii' = 1
    /\ last' = NoLast
    /\ UNCHANGED << scn, tz, now, run, exit, stats, my_tasks_tasks, di, today,
                    due_datetime, whendue, remote, completed, jumps, fails, items,
                    outcomes, parseVars >>

\* a meal becomes a one-hour event of the Food calendar
Meal(meal_name, meal_time, item, f) ==
    LET mealduedatetime == PushMeal(
                              ReplaceHM(due_datetime, meal_time.hour, meal_time.minute), now)
        start_time == IsoLocal(mealduedatetime)
        end_time == IsoLocal(mealduedatetime + MealHours * Hour)
        event == EventEntry("food", item, Capitalize(meal_name), start_time, end_time,
                            NoReminder, << di, "meals", ii >>)
    IN  CreateIfAbsent("meal", "meals", "food", event, mealduedatetime,
                       WindowMin(mealduedatetime), WindowMax(mealduedatetime), f)

\* one pass of: for meal_name, meal_time in times.items()
ProcessMeal ==
    /\ pc = "meals"
    /\ \E f \in {"ok", "list", "insert"}, j \in {0, 1} :
         /\ Failing(f)
         /\ Elapse(j)
         /\ LET meal_name == times[ii].name
                meal_key == MealKey(meal_name)
            IN  IF InDict(day_data, meal_key) /\ Truthy(Get(day_data, meal_key))
                THEN IF whendue.tag = "Unbound" THEN Raised("meal", f, j)
                     ELSE IF whendue.tag = "str"
                     THEN IF due_datetime = NoDT THEN Raised("meal", f, j)
                          ELSE Meal(meal_name, times[ii].at, Get(day_data, meal_key).s, f)
                     ELSE /\ f = "ok"
                          /\ j = 0
                          /\ last' = NoLast
                          /\ UNCHANGED << stats, remote >>
                ELSE /\ f = "ok"
                     /\ j = 0
                     /\ last' = NoLast
                     /\ UNCHANGED << stats, remote >>
    /\ outcomes' = Recorded("meals")
    /\ IF NextEntry(last'.out, ii) <= Len(times)
       THEN ii' = NextEntry(last'.out, ii) /\ pc' = pc
       ELSE ii' = 1 /\ pc' = NextCategory("meals")
    /\ di' = IF pc' = "day" THEN di + 1 ELSE di
    /\ UNCHANGED << scn, tz, run, exit, my_tasks_tasks, today, due_datetime, whendue,
                    completed, items, parseVars >>

\* an activity becomes an event of the primary calendar
Activity(title, activity_time, duration, f) ==
    LET activity_datetime == PushActivity(
                                ReplaceHMS(due_datetime, activity_time.hour,
                                           activity_time.minute, 0), now)
        start_time == IsoLocal(activity_datetime)
        end_time == IsoLocal(activity_datetime + duration * Minute)
        event == EventEntry("primary", title, "Activity", start_time, end_time,
                            NoReminder, << di, "activity", ii >>)
    IN  CreateIfAbsent("activity", "activities", "primary", event, activity_datetime,
                       ActivityWindowMin(activity_datetime),
                       ActivityWindowMax(activity_datetime), f)

\* parse_activity_with_time(item_data, default_time=time(19, 0),
\* default_duration=120), for the activities of every day of every plan
ParsedActivities ==
    [s \in 1..Len(Scenarios) |->
       [d \in 1..Len(Scenarios[s].plan) |->
          [i \in 1..Len(ActivitiesOf(Scenarios[s].plan[d].data)) |->
              parse_activity_with_time(ActivitiesOf(Scenarios[s].plan[d].data)[i],
                                       Time(DefaultActivityHour, 0), DefaultDuration)]]]

\* one entry of the day's activities
ProcessActivity ==
    /\ pc = "activities"
    /\ ii <= Len(Activities)
    /\ \E f \in {"ok", "list", "insert"}, j \in {0, 1} :
         /\ Failing(f)
         /\ Elapse(j)
         /\ LET p == ParsedActivities[scn][di][ii]
            IN  \* an exception that leaves the parser is caught here
                IF p.raised THEN Raised("activity", f, j)
                ELSE IF whendue.tag = "Unbound" THEN Raised("activity", f, j)
                ELSE IF whendue.tag = "str"
                THEN IF due_datetime = NoDT THEN Raised("activity", f, j)
                     ELSE Activity(Summary(p.title), p.time, p.duration, f)
                ELSE /\ f = "ok"
                     /\ j = 0
                     /\ last' = NoLast
                     /\ UNCHANGED << stats, remote >>
    /\ outcomes' = Recorded("activity")
    /\ ii' = NextEntry(last'.out, ii)
    /\ UNCHANGED << scn, tz, pc, run, exit, my_tasks_tasks, di, today, due_datetime,
                    whendue, completed, items, parseVars >>

EndActivities ==
    /\ pc = "activities"
    /\ ii > Len(Activities)
    /\ pc' = NextCategory("activities")
    /\ di' = IF pc' = "day" THEN di + 1 ELSE di
    /\ ii' = IF pc' = "day" THEN ii ELSE 1
    /\ last' = NoLast
    /\ UNCHANGED << scn, tz, now, run, exit, stats, my_tasks_tasks, today,
                    due_datetime, whendue, remote, completed, jumps, fails, items,
                    outcomes, parseVars >>

Next ==
    \/ Authenticate
    \/ Setup
    \/ StartDay
    \/ DayRaises
    \/ ProcessThing
    \/ EndThings
    \/ ProcessMeal
    \/ ProcessActivity
    \/ EndActivities
    \/ Return

Spec == Init /\ [][Next]_vars


(* ----------------------------- properties ------------------------------ *)
\* the key of day d of the plan is one of the seven weekday names
WeekdayKey(d) == d \in 1..Len(taskdict) /\ InDayMap(Lower(taskdict[d].key))
\* the last step reconciled an entry under a weekday key
LastUnderWeekday == last.cat # "none" /\ WeekdayKey(last.di)
\* the sinks as the last step found them
PreRemote == IF last.out = "created" THEN SubSeq(remote, 1, Len(remote) - 1) ELSE remote
\* the entry the last step created, when it created one
Created == remote[Len(remote)]
\* the local wall-clock value an entry is filed under: the due value of a
\* task, the start of an event
EntryWhen(e) == IF e.sink = "tasks" THEN e.due.naive ELSE e.start.naive

\* the meals of a day that are reconciled: indices into times
MealsOf(data) ==
    { m \in 1..Len(times) :
        /\ InDict(data, MealKeyOf(data, times[m].name))
        /\ Truthy(Get(data, MealKeyOf(data, times[m].name))) }
ItemsOfDay(d) ==
    Len(ThingsOf(taskdict[d].data)) + Cardinality(MealsOf(taskdict[d].data))
        + Len(ActivitiesOf(taskdict[d].data))
RECURSIVE ItemsUpTo(_)
ItemsUpTo(d) == IF d = 0 THEN 0 ELSE ItemsOfDay(d) + ItemsUpTo(d - 1)
\* the number of entries of the plan
TotalItems == ItemsUpTo(Len(taskdict))

\* the identity keys (sink, day, display title) of the plan's entries under
\* weekday keys
ExpectedKeys ==
    UNION { LET data == taskdict[d].data
                wd == DayMapOf(Lower(taskdict[d].key))
            IN  { LET p == parse_item_with_time(ThingsOf(data)[i])
                  IN  [sink |-> IF p.is_timed THEN "primary" ELSE "tasks",
                       day |-> wd,
                       title |-> IF p.is_timed THEN ClockPrefix \o p.title ELSE p.title]
                  : i \in 1..Len(ThingsOf(data)) }
                \cup
                { [sink |-> "food", day |-> wd,
                   title |-> Get(data, MealKeyOf(data, times[m].name)).s]
                  : m \in MealsOf(data) }
                \cup
                { [sink |-> "primary", day |-> wd,
                   title |-> Summary(parse_activity_with_time(
                                ActivitiesOf(data)[i], Time(DefaultActivityHour, 0),
                                DefaultDuration).title)]
                  : i \in 1..Len(ActivitiesOf(data)) }
            : d \in { x \in 1..Len(taskdict) : WeekdayKey(x) } }
KeyOf(e) == [sink |-> e.sink, day |-> weekday(EntryWhen(e)), title |-> e.summary]

\* C1: over any sequence of runs of the same plan, with the sinks keeping what
\* earlier runs created, no entry of the plan under a weekday key is created
\* twice
C1_CreatedAtMostOnce ==
    \A i, j \in 1..Len(remote) :
        (i < j /\ WeekdayKey(remote[i].src[1])) => remote[i].src # remote[j].src

\* C2: a second run in succession on the unchanged plan, finding exactly what
\* the first run left, creates nothing and skips every entry of the plan
C2_SecondRunSkipsAll ==
    (Len(completed) = 2 /\ run = 2 /\ fails = 0 /\ jumps = 0) =>
        /\ completed[2].tasks = 0
        /\ completed[2].timed_tasks = 0
        /\ completed[2].meals = 0
        /\ completed[2].activities = 0
        /\ completed[2].skipped = TotalItems

\* the entries of the plan under weekday keys
WeekdayItems ==
    LET RECURSIVE Upto(_)
        Upto(d) == IF d = 0 THEN 0
                   ELSE (IF WeekdayKey(d) THEN ItemsOfDay(d) ELSE 0) + Upto(d - 1)
    IN  Upto(Len(taskdict))

\* C3: after one run from empty sinks in which no call failed, every entry
\* under a weekday key has exactly one remote entry with its identity key
\* (sink, day, display title), when the entries differ in day or in title
C3_ExactlyOnePerKey ==
    (Len(completed) = 1 /\ run = 1 /\ fails = 0
        /\ Cardinality(ExpectedKeys) = WeekdayItems) =>
        \A k \in ExpectedKeys :
            Cardinality({ i \in 1..Len(remote) : KeyOf(remote[i]) = k }) = 1

\* C4: an entry is skipped exactly when its sink already holds an entry of
\* the same local calendar day with the same display title
C4_SkippedIffSameDayTitle ==
    (LastUnderWeekday /\ last.out \in {"created", "skipped"}) =>
        ( last.out = "skipped"
          <=> \E i \in 1..Len(PreRemote) :
                 /\ PreRemote[i].sink = last.sink
                 /\ PreRemote[i].summary = last.summary
                 /\ DateOf(EntryWhen(PreRemote[i])) = DateOf(last.resolved) )

\* C5: an entry is not created when an entry with its sink, day and title was
\* created earlier in the same run (for the task list: with its title)
C5_SeesOwnWrites ==
    last.out = "created" =>
        ~ \E i \in 1..Len(PreRemote) :
             /\ PreRemote[i].run = run
             /\ PreRemote[i].sink = last.sink
             /\ PreRemote[i].summary = last.summary
             /\ \/ last.sink = "tasks"
                \/ DateOf(EntryWhen(PreRemote[i])) = DateOf(last.resolved)

\* C6: the window looked up for a timed task, a meal and an activity holds
\* the whole local day (America/Chicago) of the resolved event
C6_WindowCoversLocalDay ==
    (last.cat \in {"timed", "meal", "activity"} /\ last.resolved # NoDT) =>
        /\ Instant(last.time_min) <= Instant(IsoLocal(DateOf(last.resolved)))
        /\ Instant(last.time_max) >= Instant(IsoLocal(DateOf(last.resolved) + Day))

\* C7: every datetime resolved under a weekday key is strictly later than
\* the clock at the moment of the resolution
C7_StrictlyFuture ==
    (LastUnderWeekday /\ last.resolved # NoDT) => last.resolved > last.nowAt

\* C8 as claimed: the start passed to the calendar create call is never
\* earlier than the clock at the moment the entry was resolved
C8_StartNotBeforeNow ==
    (last.out = "created" /\ last.sink # "tasks") => Created.start.naive >= last.nowAt

\* C8: no created event lies in the past: a meal and an activity start, and a
\* timed task's block ends, no earlier than the clock at the resolution; the
\* block of a timed task starts at most 30 minutes before it
C8_NotPastDated ==
    (last.out = "created" /\ last.sink # "tasks") =>
        /\ last.cat \in {"meal", "activity"} => Created.start.naive >= last.nowAt
        /\ last.cat = "timed" =>
              /\ Created.end.naive >= last.nowAt
              /\ Created.start.naive >= last.nowAt - LeadMinutes * Minute

\* a timed task is created whose block has begun and whose deadline is not
\* over
C8_Witness ==
    /\ last.out = "created"
    /\ last.cat = "timed"
    /\ Created.start.naive < last.nowAt
    /\ Created.end.naive >= last.nowAt

\* C9: for plain tasks, timed tasks, meals and activities alike the resolved
\* datetime is the anchor date at the entry's time of day, plus 7 days exactly
\* when that lies before the clock
C9_UniformPush ==
    (LastUnderWeekday /\ last.resolved # NoDT) =>
        LET base == DateOf(due_datetime) + (last.resolved % Day)
        IN  last.resolved = IF base < last.nowAt THEN base + PushDays * Day ELSE base

\* C10: the anchor date of a weekday key is today plus
\* (weekday(d) - weekday(now)) mod 7 days: never before today, today when d is
\* today's weekday, else the next date that falls on d
C10_AnchorDate ==
    (pc \in {"things", "meals", "activities"} /\ WeekdayKey(di)) =>
        LET target == DayMapOf(Lower(taskdict[di].key))
            anchor == DateOf(due_datetime)
        IN  /\ anchor = DateOf(today) + ((target - weekday(today)) % 7) * Day
            /\ anchor >= DateOf(today)
            /\ anchor < DateOf(today) + 7 * Day
            /\ weekday(anchor) = target
            /\ target = weekday(today) => anchor = DateOf(today)

\* now is Wednesday 20:00 and "Monday" resolves to the Monday of next week
C10_Witness ==
    /\ pc = "things"
    /\ today = At(1, 2, 20, 0, 0)
    /\ Lower(taskdict[di].key) = S_monday
    /\ DateOf(due_datetime) = At(2, 0, 0, 0, 0)

\* the task lists were fetched and none of them is titled 'My Stuff'
ListMissing == items.bound /\ ~(\E i \in 1..Len(items.l) : items.l[i] = My_Stuff)
\* what this run created
CreatedByRun == { i \in 1..Len(remote) : remote[i].run = run }

\* C11: when no task list exists or none is titled 'My Stuff', the run has
\* ended with no create call: no day was begun, no entry was reconciled,
\* every counter is 0 and the sinks hold nothing of this run
C11_NoListNoWrites ==
    ListMissing =>
        /\ pc = "exited"
        /\ di = 0
        /\ outcomes = << >>
        /\ stats = ZeroStats
        /\ CreatedByRun = {}

\* the second run finds a list titled 'my stuff' only, after the first run
\* created entries
C11_Witness ==
    /\ run = 2
    /\ items = Items(<< L_Groceries, L_my_stuff >>)
    /\ Len(remote) > 0
    /\ pc = "exited"

\* C12: a run that ended in the setup (before the first day) ended with a
\* non-zero exit value of main
C12_FatalSetupNonZero ==
    (pc = "exited" /\ di = 0) => exit # 0

\* whendue is None under day d: the last key up to d that binds it is allweek
RECURSIVE WhenNoneAt(_)
WhenNoneAt(d) ==
    IF d = 0 THEN FALSE
    ELSE IF Lower(taskdict[d].key) = S_allweek THEN TRUE
    ELSE IF WeekdayKey(d) THEN FALSE
    ELSE WhenNoneAt(d - 1)
\* the entries the loops of day d come to: every thing, and the meals and the
\* activities unless whendue is None
WalkedOf(d) ==
    LET data == taskdict[d].data
    IN  { << d, "things", i >> : i \in 1..Len(ThingsOf(data)) }
        \cup (IF WhenNoneAt(d) THEN {}
              ELSE { << d, "meals", m >> : m \in MealsOf(data) }
                   \cup { << d, "activity", i >> : i \in 1..Len(ActivitiesOf(data)) })
Walked == UNION { WalkedOf(d) : d \in 1..Len(taskdict) }
OutcomeSrcs == { outcomes[i].src : i \in 1..Len(outcomes) }

\* every day of the plan has a mapping as its value
AllMappings == \A d \in 1..Len(taskdict) : IsMapping(taskdict[d])

\* C13: over a plan whose days are mappings a run that began the days ends only
\* by returning its statistics after the last day, and then every entry the
\* loops come to has had its step, whatever entry failed on the way; a failed
\* step is followed by the next entry
C13_FailureIsolated ==
    /\ (pc = "exited" /\ di > 0 /\ AllMappings) =>
          /\ exit = 0
          /\ di = Len(taskdict) + 1
          /\ completed[Len(completed)] = stats
          /\ Len(outcomes) = Cardinality(Walked)
          /\ OutcomeSrcs = Walked
    /\ last.out = "error" => pc \in {"things", "meals", "activities"}

\* a run has returned in which a step failed and a later day's entry was
\* created
C13_Witness ==
    /\ pc = "exited"
    /\ exit = 0
    /\ \E i, j \in 1..Len(outcomes) :
          /\ i < j
          /\ outcomes[i].out = "error"
          /\ outcomes[j].out = "created"
          /\ outcomes[j].src[1] > outcomes[i].src[1]

\* C14: stats.skipped counts the entries that exist already and the entries
\* whose step failed
C14_FailureCountedSkipped ==
    stats.skipped =
        Cardinality({ i \in 1..Len(outcomes) : outcomes[i].out \in {"skipped", "error"} })

\* C15: a step that finds its entry in the sink issues no create call, adds
\* exactly 1 to stats.skipped and leaves the other counters as they are
C15_SkipFrame ==
    [][ last'.out = "skipped" =>
            /\ remote' = remote
            /\ stats' = [stats EXCEPT !.skipped = @ + 1] ]_vars

\* the second run has just skipped the plain task that the first run created
C15_Witness ==
    /\ run = 2
    /\ last.out = "skipped"
    /\ last.cat = "plain"
    /\ stats.skipped > 0
    /\ stats.tasks = 0

\* the key of day d is a weekday name or allweek
KnownKey(d) == WeekdayKey(d) \/ Lower(taskdict[d].key) = S_allweek

\* C16: under a key that is neither a weekday name nor allweek nothing is
\* created and no step is taken, so no error is raised either
C16_UnknownKeyIgnored ==
    /\ \A i \in 1..Len(remote) : KnownKey(remote[i].src[1])
    /\ \A i \in 1..Len(outcomes) : KnownKey(outcomes[i].src[1])

(* ------------------------ the parsers on their own ---------------------- *)
\* spaces on each side of the dash in the texts handed to the parsers
MaxPad == 1

Spaces(k) == [i \in 1..k |-> " "]
HourTexts ==
    { << >>, <<"7">>, <<"0", "7">>, <<"2", "3">>, <<"2", "4">>, <<"9", "9">>,
      <<"1", "2", "3">>, <<"a">>, <<" ", "7">> }
ColonTexts == { <<":">>, << >> }
MinuteTexts ==
    { <<"0", "0">>, <<"5", "9">>, <<"6", "0">>, <<"5">>, <<"3", "0", "0">>, <<"3", "a">> }
DashTexts == { <<"-">>, << >> }
RestTexts == { << >>, <<"P", "a", "y">>, <<"a", " ", "-", " ", "b">>, <<"x", " ">> }
\* texts around the shape "HH:MM - rest", well formed and not
TextInputs ==
    { h \o c \o m \o Spaces(a) \o d \o Spaces(b) \o r :
        h \in HourTexts, c \in ColonTexts, m \in MinuteTexts, a \in 0..MaxPad,
        d \in DashTexts, b \in 0..MaxPad, r \in RestTexts }

\* the values of the fields of an activity record
ItemValues == { None, Str(<< >>), Str(T_Oatmeal) }
TitleValues == { Str(<< >>), Str(T_Pasta) }
TimeValues ==
    { None, Str(<< >>), Num(1110),
      Str(<<"1", "8", ":", "3", "0">>), Str(<<"7", ":", "5">>),
      Str(<<"2", "4", ":", "0", "0">>), Str(<<"1", "8", ":", "6", "0">>),
      Str(<<"-", "1", ":", "3", "0">>), Str(<<"1", "8", ":", "3", "0", ":", "0", "0">>),
      Str(<<"1", "8", "3", "0">>), Str(<<" ", "1", "8", " ", ":", " ", "3", "0", " ">>) }
DurationValues ==
    { Num(d) : d \in {-5, 0, 1, 90, MaxDuration, MaxDuration + 1, 5000} }
    \cup { Str(<<"9", "0">>), Str(<<"a", "b", "c">>), Str(<< >>), Float(905), Float(5),
           Float(-37), Inf, NaN, None }
\* a field that is absent, or present with one of the values
Opt(k, values) == { << >> } \cup { << KV(k, v) >> : v \in values }
RecordInputs ==
    { Dict(i \o t \o tm \o du) :
        i \in Opt(S_item, ItemValues), t \in Opt(S_title, TitleValues),
        tm \in Opt(S_time, TimeValues), du \in Opt(S_duration, DurationValues) }

ParseInputs == { Str(s) : s \in TextInputs } \cup RecordInputs \cup { None, Num(7), Float(905) }

\* a parser is handed one value; the script itself stays where it starts
ParseInit ==
    /\ scn = 1
    /\ tz = 5
    /\ now = Scenarios[scn].now
    /\ pc = "idle"
    /\ run = 0
    /\ exit = 0
    /\ stats = ZeroStats
    /\ my_tasks_tasks = << >>
    /\ di = 0
    /\ ii = 0
    /\ today = NoDT
    /\ due_datetime = NoDT
    /\ whendue = WhenUnbound
    /\ remote = << >>
    /\ last = NoLast
    /\ completed = << >>
    /\ jumps = 0
    /\ fails = 0
    /\ items = NoItems
    /\ outcomes = << >>
    /\ raw \in ParseInputs
    /\ parsed = NotParsed

runVars == << scn, tz, now, pc, run, exit, stats, my_tasks_tasks, di, ii, today,
              due_datetime, whendue, remote, last, completed, jumps, fails, items,
              outcomes >>

\* title, item_time, is_timed = parse_item_with_time(item_data)
ClassifyThing ==
    /\ parsed = NotParsed
    /\ parsed' = [fn |-> "thing", r |-> parse_item_with_time(raw)]
    /\ UNCHANGED << raw, runVars >>

\* title, activity_time, duration = parse_activity_with_time(activity_data,
\*     default_time=time(19, 0), default_duration=120)
ClassifyActivity ==
    /\ parsed = NotParsed
    /\ parsed' = [fn |-> "activity",
                  r |-> parse_activity_with_time(raw, Time(DefaultActivityHour, 0),
                                                 DefaultDuration)]
    /\ UNCHANGED << raw, runVars >>

ParseNext ==
    \/ ClassifyThing
    \/ ClassifyActivity

ParseSpec == ParseInit /\ [][ParseNext]_vars

\* the ways to read s as one or two digits, a colon, two digits, spaces, a
\* dash, spaces and a rest of at least one character
Forms(s) ==
    { [h |-> DigitsVal(SubSeq(s, 1, x[1])),
       m |-> DigitsVal(SubSeq(s, x[1] + 2, x[1] + 3)),
       rest |-> SubSeq(s, x[1] + 5 + x[2] + x[3], Len(s))] :
        x \in { y \in (1..2) \X (0..Len(s)) \X (0..Len(s)) :
                  /\ y[1] + 5 + y[2] + y[3] <= Len(s)
                  /\ \A i \in 1..y[1] : IsDigit(s[i])
                  /\ s[y[1] + 1] = ":"
                  /\ IsDigit(s[y[1] + 2])
                  /\ IsDigit(s[y[1] + 3])
                  /\ \A i \in (y[1] + 4)..(y[1] + 3 + y[2]) : s[i] = " "
                  /\ s[y[1] + 4 + y[2]] = "-"
                  /\ \A i \in (y[1] + 5 + y[2])..(y[1] + 4 + y[2] + y[3]) : s[i] = " " } }
\* the reading that leaves the shortest rest
ShortestForm(s) == CHOOSE d \in Forms(s) : \A e \in Forms(s) : Len(d.rest) <= Len(e.rest)
\* s is a time prefix with hour 0..23 and minute 0..59 and a rest
WellFormed(s) == \E d \in Forms(s) : d.h \in 0..23 /\ d.m \in 0..59

\* C17: parse_item_with_time gives a timed task with title = rest and the time
\* of the prefix for a text that reads as "H:MM - rest" or "HH:MM - rest"
\* (spaces around the dash as many as there are, rest not empty) with hour in
\* 0..23 and minute in 0..59; for every other value, a prefix out of range
\* included, it gives a plain task whose title is the whole text
C17_ClassifyThing ==
    parsed.fn = "thing" =>
        IF raw.kind = "str" /\ WellFormed(raw.s)
        THEN /\ parsed.r.is_timed
             /\ parsed.r.title = ShortestForm(raw.s).rest
             /\ parsed.r.time = Time(ShortestForm(raw.s).h, ShortestForm(raw.s).m)
        ELSE /\ ~parsed.r.is_timed
             /\ parsed.r.time = NoTime
             /\ parsed.r.title = (IF raw.kind = "str" THEN raw.s ELSE PyStr(raw))

\* "7:59 - Pay" has become a timed task, "24:00 - Pay" would not
C17_Witness ==
    /\ parsed.fn = "thing"
    /\ raw = Str(<<"7", ":", "5", "9", " ", "-", " ", "P", "a", "y">>)
    /\ parsed.r = [title |-> <<"P", "a", "y">>, time |-> Time(7, 59), is_timed |-> TRUE]

\* the duration field of a record, None when the value is no record or has none
DurationField == IF raw.kind = "dict" /\ InDict(raw.f, S_duration)
                 THEN Get(raw.f, S_duration) ELSE None

\* C18: the duration of an activity is the record's duration when that is an
\* integer d with 0 < d <= 1440, and the default of 120 minutes otherwise,
\* for a text always
C18_DurationKeptIffIntegerInRange ==
    (parsed.fn = "activity" /\ ~parsed.r.raised) =>
        parsed.r.duration =
            IF DurationField.kind = "int" /\ 0 < DurationField.n
                    /\ DurationField.n <= MaxDuration
            THEN DurationField.n
            ELSE DefaultDuration

\* the time a record's time field states: two integers around one colon, hour
\* in 0..23 and minute in 0..59
StatesTime(v, h, m) ==
    /\ v.kind = "str"
    /\ Len(SplitColon(v.s)) = 2
    /\ IntOfText(SplitColon(v.s)[1]) = Ok(h)
    /\ IntOfText(SplitColon(v.s)[2]) = Ok(m)

\* C19: parse_activity_with_time never raises; for a record the title is the
\* value of item if present, else of title, else "Untitled", and the time is
\* the one of its time field when valid, else the default; for any other value
\* the prefix rule of things decides title and time, with the default time
\* for a text without a valid prefix, and the duration is the default
C19_ClassifyActivity ==
    parsed.fn = "activity" =>
        /\ ~parsed.r.raised
        /\ IF raw.kind = "dict"
           THEN /\ parsed.r.title =
                      IF InDict(raw.f, S_item) THEN Get(raw.f, S_item)
                      ELSE IF InDict(raw.f, S_title) THEN Get(raw.f, S_title)
                      ELSE Str(S_Untitled)
                /\ IF InDict(raw.f, S_time)
                        /\ \E h \in 0..23, m \in 0..59 : StatesTime(Get(raw.f, S_time), h, m)
                   THEN StatesTime(Get(raw.f, S_time), parsed.r.time.hour,
                                   parsed.r.time.minute)
                   ELSE parsed.r.time = Time(DefaultActivityHour, 0)
           ELSE LET t == parse_item_with_time(Str(PyStr(raw)))
                IN  /\ parsed.r.title = Str(t.title)
                    /\ parsed.r.time = IF t.is_timed THEN t.time
                                       ELSE Time(DefaultActivityHour, 0)
                    /\ parsed.r.duration = DefaultDuration

\* the title of a created entry: the summary, for a timed task without its
\* marker
TitleOfEntry(e) ==
    IF e.reminder # NoReminder THEN SubSeq(e.summary, Len(ClockPrefix) + 1, Len(e.summary))
    ELSE e.summary

\* C20: every entry created in a sink has a title that is not empty
C20_TitleNotEmpty ==
    \A i \in 1..Len(remote) : Len(TitleOfEntry(remote[i])) > 0

\* the scenario of the week start: the plan {monday: {Breakfast: Oatmeal,
\* Things: [14:30 - Call dentist, Buy milk], Activity: [19:00 - Board game
\* night]}} read on a Sunday, no call failing
WeekStartOnSunday == taskdict = PlanWeekStart /\ weekday(now) = 6 /\ fails = 0
\* the Monday after the Sunday of the scenario, at hh:mm
NextMonday(hh, mm) == DateOf(Scenarios[scn].now) + Day + hh * 3600 + mm * 60

\* C21: in the scenario the first run from empty sinks creates exactly a timed
\* task "⏰ Call dentist" whose block is Monday 14:00-14:30, a plain task
\* "Buy milk" due Monday 20:00, a meal "Oatmeal" Monday 07:30-08:30 and an
\* activity "Board game night" Monday 19:00-21:00, and skips nothing; the
\* second run creates nothing and skips four
C21_WeekStartScenario ==
    (WeekStartOnSunday /\ Len(completed) >= 1) =>
        /\ completed[1] = [tasks |-> 1, timed_tasks |-> 1, meals |-> 1, activities |-> 1,
                           skipped |-> 0]
        /\ Len(remote) = 4
        /\ { [sink |-> remote[i].sink, summary |-> remote[i].summary,
              start |-> remote[i].start.naive, end |-> remote[i].end.naive,
              due |-> remote[i].due.naive] : i \in 1..4 }
           = { [sink |-> "primary",
                summary |-> <<"⏰", " ", "C", "a", "l", "l", " ", "d", "e", "n", "t", "i",
                              "s", "t">>,
                start |-> NextMonday(14, 0), end |-> NextMonday(14, 30), due |-> NoDT],
               [sink |-> "tasks", summary |-> <<"B", "u", "y", " ", "m", "i", "l", "k">>,
                start |-> NoDT, end |-> NoDT, due |-> NextMonday(20, 0)],
               [sink |-> "food", summary |-> <<"O", "a", "t", "m", "e", "a", "l">>,
                start |-> NextMonday(7, 30), end |-> NextMonday(8, 30), due |-> NoDT],
               [sink |-> "primary",
                summary |-> <<"B", "o", "a", "r", "d", " ", "g", "a", "m", "e", " ", "n",
                              "i", "g", "h", "t">>,
                start |-> NextMonday(19, 0), end |-> NextMonday(21, 0), due |-> NoDT] }
        /\ Len(completed) = 2 =>
              completed[2] = [tasks |-> 0, timed_tasks |-> 0, meals |-> 0,
                              activities |-> 0, skipped |-> 4]

\* the second run of the scenario has returned with four skips
C21_Witness ==
    /\ WeekStartOnSunday
    /\ Len(completed) = 2
    /\ completed[2].skipped = 4
    /\ Len(remote) = 4

\* the place of an entry in the order of the run: day, then category, then
\* position in the category
CategoryRank(field) == CASE field = "things" -> 1 [] field = "meals" -> 2 [] field = "activity" -> 3
Before(a, b) ==
    \/ a[1] < b[1]
    \/ a[1] = b[1] /\ CategoryRank(a[2]) < CategoryRank(b[2])
    \/ a[1] = b[1] /\ a[2] = b[2] /\ a[3] < b[3]

\* C22: the entries are reconciled day after day in plan order, and within a
\* day every thing before any meal and every meal before any activity
C22_CategoryOrder ==
    \A i, j \in 1..Len(outcomes) : i < j => Before(outcomes[i].src, outcomes[j].src)

\* a thing, a meal and an activity of the same day have been reconciled, in
\* that order
C22_Witness ==
    /\ Len(outcomes) >= 4
    /\ outcomes[2].src[2] = "things"
    /\ outcomes[3].src[2] = "meals"
    /\ outcomes[4].src[2] = "activity"


\* the entry the preceding step created
LastCreated == remote[Len(remote)]

\* C23: the window a timed task, a meal or an activity is looked up in and the
\* start and end it is created with all derive from the one datetime resolved
\* before the lookup, wherever the clock stands when the lookup has returned
C23_ResolvedOnce ==
    (last.cat \in {"timed", "meal", "activity"} /\ last.resolved # NoDT) =>
        /\ last.time_min = IsoZ(DateOf(last.resolved))
        /\ last.cat \in {"timed", "meal"} => last.time_max = IsoZ(DateOf(last.resolved) + Day)
        /\ last.cat = "activity" =>
              last.time_max = IsoZ(DateOf(last.resolved) + Day + 23 * Hour + 59 * Minute)
        /\ (last.out = "created" /\ last.cat = "timed") =>
              /\ LastCreated.end = IsoLocal(last.resolved)
              /\ LastCreated.start = IsoLocal(last.resolved - 30 * Minute)
        /\ (last.out = "created" /\ last.cat = "meal") =>
              /\ LastCreated.start = IsoLocal(last.resolved)
              /\ LastCreated.end = IsoLocal(last.resolved + Hour)
        /\ (last.out = "created" /\ last.cat = "activity") =>
              /\ LastCreated.start = IsoLocal(last.resolved)
              /\ Instant(LastCreated.end) > Instant(LastCreated.start)

\* a timed task was created while the clock went past its time and past
\* midnight during the lookup
C23_Witness ==
    /\ last.cat = "timed"
    /\ last.out = "created"
    /\ last.nowAt <= last.resolved
    /\ now > last.resolved
    /\ DateOf(now) > DateOf(last.resolved)


\* the fields of day d whose name reads, in lower case, as the meal slot m
MealFields(d, m) ==
    { k \in 1..Len(taskdict[d].data) : Lower(taskdict[d].data[k].k) = times[m].name }
\* a run has walked all the days and returned
WalkedAllDays == pc = "exited" /\ exit = 0 /\ di > Len(taskdict)

\* C24: after a run over the whole plan every things, activity and meal field
\* of a weekday, whatever the letter case of its name, has had its entries
\* reconciled
C24_FieldNameAnyCase ==
    WalkedAllDays =>
        \A d \in 1..Len(taskdict) :
            WeekdayKey(d) =>
                /\ \A i \in 1..Len(ThingsOf(taskdict[d].data)) :
                      << d, "things", i >> \in OutcomeSrcs
                /\ \A i \in 1..Len(ActivitiesOf(taskdict[d].data)) :
                      << d, "activity", i >> \in OutcomeSrcs
                /\ \A m \in 1..Len(times) :
                      (\E k \in MealFields(d, m) : Truthy(taskdict[d].data[k].v))
                         => << d, "meals", m >> \in OutcomeSrcs


\* the thing the preceding step was about, as parse_item_with_time reads it
LastThing == parse_item_with_time(ThingsOf(taskdict[last.di].data)[last.idx])

\* C25: a timed task under a weekday key is looked up in the primary calendar
\* under the marker followed by its parsed title, and is created there under
\* that title as an event that ends at the resolved deadline, at the stated
\* time of day, starts 30 minutes earlier and has a reminder of 15 minutes
C25_TimedTaskEvent ==
    (last.cat = "timed" /\ last.resolved # NoDT /\ WeekdayKey(last.di)) =>
        /\ last.sink = "primary"
        /\ last.summary = <<"⏰", " ">> \o LastThing.title
        /\ last.resolved % Day = LastThing.time.hour * 3600 + LastThing.time.minute * 60
        /\ last.out = "created" =>
              /\ LastCreated.sink = "primary"
              /\ LastCreated.summary = last.summary
              /\ LastCreated.end = IsoLocal(last.resolved)
              /\ LastCreated.start = IsoLocal(last.resolved - 30 * 60)
              /\ LastCreated.reminder = 15

\* the timed task "14:30 - Call dentist" of a Monday was created
C25_Witness ==
    /\ last.cat = "timed"
    /\ last.out = "created"
    /\ WeekdayKey(last.di)
    /\ LastThing.title = <<"C", "a", "l", "l", " ", "d", "e", "n", "t", "i", "s", "t">>
    /\ LastCreated.end.naive % Day = 14 * 3600 + 30 * 60


\* the time of day, in seconds, stated for each meal slot
SlotSeconds(name) ==
    CASE name = <<"b", "r", "e", "a", "k", "f", "a", "s", "t">> -> 7 * 3600 + 30 * 60
      [] name = <<"l", "u", "n", "c", "h">> -> 11 * 3600 + 30 * 60
      [] name = <<"s", "n", "a", "c", "k">> -> 15 * 3600
      [] name = <<"d", "i", "n", "n", "e", "r">> -> 18 * 3600 + 30 * 60

\* C26: a meal is resolved to the fixed time of its slot (breakfast 07:30,
\* lunch 11:30, snack 15:00, dinner 18:30) and its event starts then and ends
\* 60 minutes later
C26_MealSlotTimes ==
    (last.cat = "meal" /\ last.resolved # NoDT) =>
        /\ last.resolved % Day = SlotSeconds(times[last.idx].name)
        /\ last.out = "created" =>
              /\ LastCreated.start.naive = last.resolved
              /\ LastCreated.end.naive = LastCreated.start.naive + 60 * 60
              /\ LastCreated.start.zone = LastCreated.end.zone

\* a snack was created at 15:00 after a lunch at 11:30
C26_Witness ==
    /\ last.cat = "meal"
    /\ last.out = "created"
    /\ times[last.idx].name = S_snack
    /\ LastCreated.start.naive % Day = 15 * 3600
    /\ \E i \in 1..Len(remote) :
          /\ remote[i].sink = "food"
          /\ remote[i].start.naive % Day = 11 * 3600 + 30 * 60


\* the entry of the plan a sink entry was created for
SourceThing(e) == parse_item_with_time(ThingsOf(taskdict[e.src[1]].data)[e.src[3]])
\* the sink each kind of entry is meant for: a thing that reads as plain goes
\* to the task list, a thing that reads as timed and an activity to the
\* primary calendar, a meal to the food calendar
SinkOf(e) ==
    CASE e.src[2] = "things" -> IF SourceThing(e).is_timed THEN "primary" ELSE "tasks"
      [] e.src[2] = "meals" -> "food"
      [] e.src[2] = "activity" -> "primary"

\* C27: every entry in the sinks is in the sink meant for its kind
C27_SinkRouting == \A i \in 1..Len(remote) : remote[i].sink = SinkOf(remote[i])


\* C28: when the session is not acquired the run ends at once with exit value
\* 1: no list call has returned (neither the task lists nor the tasks of the
\* list are known), nothing is added to a sink, no day is begun and no entry
\* is looked up
C28_AuthFailureStopsRun ==
    [][(pc \in {"idle", "exited"} /\ exit' = 1) =>
          /\ pc' = "exited"
          /\ ~items'.bound
          /\ my_tasks_tasks' = << >>
          /\ remote' = remote
          /\ di' = 0
          /\ outcomes' = << >>
          /\ stats' = ZeroStats
          /\ completed' = completed]_vars

\* the second run failed to acquire the session after a first run that
\* created entries
C28_Witness ==
    /\ run = 2
    /\ pc = "exited"
    /\ exit = 1
    /\ ~items.bound
    /\ Len(remote) > 0


(* ------------------------------ termination ---------------------------- *)
\* the steps of a run that has acquired its session
RunStep ==
    \/ Setup
    \/ StartDay
    \/ DayRaises
    \/ ProcessThing
    \/ EndThings
    \/ ProcessMeal
    \/ ProcessActivity
    \/ EndActivities
    \/ Return
\* the plans termination is explored for: all three categories (on a Sunday
\* and on the Monday of the entries), two days, seven days, entries that raise
\* under an unknown first key, records whose parsing raises, a day that is
\* no mapping
LiveScenarios == {1, 2, 6, 8, 10, 12, 22}
LiveInit == Init /\ scn \in LiveScenarios
\* every sink call returns or raises in finite time, and the code between two
\* calls is finite: a run that can take a step takes one
LiveSpec == LiveInit /\ [][Next]_vars /\ WF_vars(RunStep)

MaxLines == 2

K_Wed == <<"W", "e", "d">>
\* the alternatives of the header pattern:
\* Monday|Tuesday|Wed(?:nesday)?|Thursday|Friday|Saturday|Sunday
HeaderNames == { Capitalize(day_map[d]) : d \in 1..7 } \cup { K_Wed }
NoDay == << >>

\* re.match(r'^(Monday|Tuesday|Wed(?:nesday)?|Thursday|Friday|Saturday|Sunday):\s*$',
\*          line.strip()): group(1), or NoDay when the line does not match.  The
\* pattern is compiled without re.IGNORECASE, and after strip() nothing may
\* follow the colon
day_match(line) ==
    LET stripped == Strip(line)
    IN  IF /\ Len(stripped) > 1
           /\ stripped[Len(stripped)] = ":"
           /\ SubSeq(stripped, 1, Len(stripped) - 1) \in HeaderNames
        THEN SubSeq(stripped, 1, Len(stripped) - 1)
        ELSE NoDay

\* a header name in another letter case
AllUpper(s) == [i \in 1..Len(s) |-> UpperChar(s[i])]
CasesOf(s) == { s, Lower(s), AllUpper(s) }
\* the lines that are read: a header name in three letter cases, with and
\* without the colon, with text after the colon, with spaces around
MarkdownLines ==
    { Spaces(a) \o n \o c \o Spaces(b) :
        a \in 0..MaxPad, b \in 0..MaxPad,
        n \in UNION { CasesOf(h) : h \in HeaderNames },
        c \in { << >>, <<":">>, <<":", " ", "x">> } }

\* parse_markdown before its first line: week_data = {}, current_day = None
MarkdownStart == [fn |-> "parse_markdown", current_day |-> NoDay, week_data |-> {}, lines |-> 0]

MarkdownInit ==
    /\ scn = 1
    /\ tz = 5
    /\ now = Scenarios[scn].now
    /\ pc = "idle"
    /\ run = 0
    /\ exit = 0
    /\ stats = ZeroStats
    /\ my_tasks_tasks = << >>
    /\ di = 0
    /\ ii = 0
    /\ today = NoDT
    /\ due_datetime = NoDT
    /\ whendue = WhenUnbound
    /\ remote = << >>
    /\ last = NoLast
    /\ completed = << >>
    /\ jumps = 0
    /\ fails = 0
    /\ items = NoItems
    /\ outcomes = << >>
    /\ raw = None
    /\ parsed = MarkdownStart

\* one pass of `for line in lines` over a line that is a day header or is
\* none: a header sets current_day and gives the day a fresh entry in
\* week_data (of which the keys are kept here); any other of these lines
\* leaves both as they are
ReadLine ==
    /\ parsed.fn = "parse_markdown"
    /\ parsed.lines < MaxLines
    /\ \E line \in MarkdownLines :
         LET group1 == day_match(line)
             day_name == IF group1 = K_Wed THEN Capitalize(S_wednesday) ELSE group1
         IN  /\ raw' = Str(line)
             /\ parsed' = IF group1 # NoDay
                          THEN [parsed EXCEPT !.current_day = day_name,
                                              !.week_data = @ \cup { day_name },
                                              !.lines = @ + 1]
                          ELSE [parsed EXCEPT !.lines = @ + 1]
    /\ UNCHANGED runVars

MarkdownNext == ReadLine
MarkdownSpec == MarkdownInit /\ [][MarkdownNext]_vars

\* the day a line names when the letter case is ignored: the line, without
\* the spaces around it, is a weekday name or "wed" followed by ':'
NamedDay(line) ==
    LET s == Lower(Strip(line))
    IN  IF Len(s) > 1 /\ s[Len(s)] = ":"
        THEN LET n == SubSeq(s, 1, Len(s) - 1)
             IN  IF n = <<"w", "e", "d">> THEN <<"W", "e", "d", "n", "e", "s", "d", "a", "y">>
                 ELSE IF \E d \in 1..7 : day_map[d] = n THEN Capitalize(n)
                 ELSE NoDay
        ELSE NoDay

\* C30: a line that is a weekday name followed by ':' in any letter case
\* starts a new day, and the header "Wed:" starts the day "Wednesday"
C30_DayHeaderAnyCase ==
    (parsed.fn = "parse_markdown" /\ parsed.lines > 0 /\ NamedDay(raw.s) # NoDay) =>
        /\ parsed.current_day = NamedDay(raw.s)
        /\ NamedDay(raw.s) \in parsed.week_data


\* C31: a day whose value is no mapping does not stop the run: a run that
\* began the days ends after the last day, with every entry of every other
\* day reconciled
C31_DayFailureContained ==
    (pc = "exited" /\ di > 0) =>
        /\ di = Len(taskdict) + 1
        /\ \A d \in 1..Len(taskdict) : WalkedOf(d) \subseteq OutcomeSrcs


\* the number of entries this run has created in a sink for a field
CreatedCount(sink, field) ==
    Cardinality({ i \in CreatedByRun : remote[i].sink = sink /\ remote[i].src[2] = field })

\* C32: at every point of a run each created counter is the number of entries
\* of its category that the run has created so far
C32_CountersCountCreates ==
    /\ stats.tasks = CreatedCount("tasks", "things")
    /\ stats.timed_tasks = CreatedCount("primary", "things")
    /\ stats.meals = CreatedCount("food", "meals")
    /\ stats.activities = CreatedCount("primary", "activity")
    /\ Cardinality(CreatedByRun)
          = stats.tasks + stats.timed_tasks + stats.meals + stats.activities

\* in the middle of a run two kinds of entries are counted and an insert has
\* failed before
C32_Witness ==
    /\ pc \in {"things", "meals", "activities"}
    /\ fails = 1
    /\ \E i \in 1..Len(outcomes) : outcomes[i].out = "error"
    /\ stats.meals = 1
    /\ stats.tasks = 1


\* day d of the plan is the allweek key
AllweekDay(d) == Lower(taskdict[d].key) = <<"a", "l", "l", "w", "e", "e", "k">>
\* how the entry of an outcome ended
OutcomeOf(src) == { outcomes[i].out : i \in { k \in 1..Len(outcomes) : outcomes[k].src = src } }

\* C33: whatever was created for the allweek key is a task of the task list,
\* made from one of its things, without a due value and titled with the text
\* the parser gives (the text after a time prefix); its meals and activities
\* are never looked up; and when no call fails each of its things ends
\* created or skipped
C33_AllweekOnlyTasks ==
    /\ \A i \in 1..Len(remote) :
          AllweekDay(remote[i].src[1]) =>
             /\ remote[i].sink = "tasks"
             /\ remote[i].src[2] = "things"
             /\ remote[i].due = WhenNone
             /\ remote[i].start = WhenNone
             /\ remote[i].summary = SourceThing(remote[i]).title
    /\ \A i \in 1..Len(outcomes) :
          AllweekDay(outcomes[i].src[1]) =>
             /\ outcomes[i].src[2] = "things"
             /\ fails = 0 => outcomes[i].out \in {"created", "skipped"}
    /\ (WalkedAllDays /\ fails = 0) =>
          \A d \in 1..Len(taskdict) :
             AllweekDay(d) =>
                \A k \in 1..Len(ThingsOf(taskdict[d].data)) :
                   OutcomeOf(<< d, "things", k >>) \in {{"created"}, {"skipped"}}

\* after a Monday the allweek day was walked: its time-prefixed thing is a
\* task titled "Call dentist" without due value, and the run has returned
\* with one meal, that of the Monday
C33_Witness ==
    /\ WalkedAllDays
    /\ Len(taskdict) = 2
    /\ AllweekDay(2)
    /\ stats = [tasks |-> 2, timed_tasks |-> 0, meals |-> 1, activities |-> 0, skipped |-> 0]
    /\ \E i \in 1..Len(remote) :
          /\ remote[i].src = << 2, "things", 1 >>
          /\ remote[i].summary = <<"C", "a", "l", "l", " ", "d", "e", "n", "t", "i", "s", "t">>
          /\ remote[i].due = WhenNone


\* the titles of the tasks fetched at the start of the run
FetchedTitles == { my_tasks_tasks[i] : i \in 1..Len(my_tasks_tasks) }

\* C34: no task the run has created has the title of a task fetched at the
\* start of the run, and a thing that goes to the task list under a fetched
\* title is skipped
C34_PlainTaskTitleCheck ==
    /\ \A i \in CreatedByRun :
          remote[i].sink = "tasks" => remote[i].summary \notin FetchedTitles
    /\ (last.cat = "plain" /\ last.summary \in FetchedTitles) =>
          last.out = "skipped"

\* a plain task was skipped for a task of the same title that has another
\* due value than the one just resolved
C34_Witness ==
    /\ last.cat = "plain"
    /\ last.out = "skipped"
    /\ last.resolved # NoDT
    /\ \E i \in 1..Len(remote) :
          /\ remote[i].sink = "tasks"
          /\ remote[i].summary = last.summary
          /\ remote[i].due.naive # last.resolved
    /\ ~ \E i \in 1..Len(remote) :
          /\ remote[i].sink = "tasks"
          /\ remote[i].summary = last.summary
          /\ remote[i].due.naive = last.resolved


(* ------------------ resolution of datetimes, input by input ------------- *)
\* times of day at which the clock is read
ClockTimes ==
    { << 0, 0, 0 >>, << 7, 29, 59 >>, << 7, 30, 0 >>, << 14, 30, 0 >>, << 14, 30, 1 >>,
      << 19, 59, 59 >>, << 20, 0, 0 >>, << 20, 0, 1 >>, << 23, 59, 59 >> }
\* times stated by items
ItemTimes == { Time(0, 0), Time(7, 30), Time(14, 30), Time(19, 0), Time(23, 59) }
\* seconds between the clock read of the day (today) and the clock read of
\* the comparison that decides the push
ReadDelays == { 0, 1, ClockJump }
ResolveInputs ==
    { [today |-> At(1, d, c[1], c[2], c[3]), target |-> w, at |-> t, delay |-> dl] :
        d \in 0..6, c \in ClockTimes, w \in 0..6, t \in ItemTimes, dl \in ReadDelays }

\* the resolution is handed one input; the script itself stays where it starts
ResolveInit ==
    /\ scn = 1
    /\ tz = 5
    /\ now = Scenarios[scn].now
    /\ pc = "idle"
    /\ run = 0
    /\ exit = 0
    /\ stats = ZeroStats
    /\ my_tasks_tasks = << >>
    /\ di = 0
    /\ ii = 0
    /\ today = NoDT
    /\ due_datetime = NoDT
    /\ whendue = WhenUnbound
    /\ remote = << >>
    /\ last = NoLast
    /\ completed = << >>
    /\ jumps = 0
    /\ fails = 0
    /\ items = NoItems
    /\ outcomes = << >>
    /\ raw \in ResolveInputs
    /\ parsed = NotParsed

\* the due value of a weekday: due_datetime of lines 482-491
ResolveDue ==
    /\ parsed = NotParsed
    /\ parsed' = [fn |-> "due", clock |-> raw.today,
                  resolved |-> DueDatetime(raw.today, raw.target)]
    /\ UNCHANGED << raw, runVars >>

\* task_datetime of lines 506-509
ResolveTimedTask ==
    /\ parsed = NotParsed
    /\ parsed' = [fn |-> "timed", clock |-> raw.today + raw.delay,
                  resolved |-> PushTimedTask(
                                  ReplaceHM(DueDatetime(raw.today, raw.target),
                                            raw.at.hour, raw.at.minute),
                                  raw.today + raw.delay)]
    /\ UNCHANGED << raw, runVars >>

\* mealduedatetime of lines 579-582
ResolveMeal ==
    /\ parsed = NotParsed
    /\ parsed' = [fn |-> "meal", clock |-> raw.today + raw.delay,
                  resolved |-> PushMeal(
                                  ReplaceHM(DueDatetime(raw.today, raw.target),
                                            raw.at.hour, raw.at.minute),
                                  raw.today + raw.delay)]
    /\ UNCHANGED << raw, runVars >>

\* activity_datetime of lines 633-641
ResolveActivity ==
    /\ parsed = NotParsed
    /\ parsed' = [fn |-> "activity", clock |-> raw.today + raw.delay,
                  resolved |-> PushActivity(
                                  ReplaceHMS(DueDatetime(raw.today, raw.target),
                                             raw.at.hour, raw.at.minute, 0),
                                  raw.today + raw.delay)]
    /\ UNCHANGED << raw, runVars >>

ResolveNext ==
    \/ ResolveDue
    \/ ResolveTimedTask
    \/ ResolveMeal
    \/ ResolveActivity

ResolveSpec == ResolveInit /\ [][ResolveNext]_vars

\* C35: the due value, the deadline of a timed task, the start of a meal and
\* the start of an activity resolved for a weekday are at most 7 days after
\* the clock value they were resolved with, for every weekday and time of the
\* clock, every target weekday and every item time, pushed or not
C35_AtMostAWeekAhead ==
    parsed # NotParsed => parsed.resolved - parsed.clock <= 7 * 24 * 3600

\* a deadline that was pushed by a week, one second short of 7 days ahead
C35_Witness ==
    /\ parsed # NotParsed
    /\ parsed.fn = "timed"
    /\ parsed.resolved = ReplaceHM(DueDatetime(raw.today, raw.target), raw.at.hour,
                                   raw.at.minute) + 7 * Day
    /\ parsed.resolved - parsed.clock = 7 * 24 * 3600 - 1


\* C36: no step removes or changes an entry of a sink: the sinks after a step
\* hold every entry they held before it, unchanged, and possibly new ones
C36_SinksOnlyGrow ==
    [][/\ Len(remote') >= Len(remote)
       /\ SubSeq(remote', 1, Len(remote)) = remote]_vars

\* the second run has added an entry to sinks that hold entries of the first
C36_Witness ==
    /\ run = 2
    /\ \E i, j \in 1..Len(remote) :
          /\ i < j
          /\ remote[i].run = 1
          /\ remote[j].run = 2


\* the entries of the primary calendar made from the field of a day under the
\* summary
PrimaryEntries(field, summary) ==
    { i \in 1..Len(remote) :
        /\ remote[i].sink = "primary"
        /\ remote[i].src[2] = field
        /\ remote[i].summary = summary }

\* C37: with a timed task and an activity of the same parsed title on the
\* same day, the first run from empty sinks creates both and skips none when
\* no call fails; and whichever of the two is in the calendar first, the
\* other is skipped only for an entry of its own kind
C37_SameTitleNotMasked ==
    /\ (taskdict = PlanSameTitle /\ fails = 0 /\ Len(completed) >= 1) =>
          /\ completed[1].timed_tasks = 1
          /\ completed[1].activities = 1
          /\ completed[1].skipped = 0
    /\ (last.cat = "timed" /\ last.out = "skipped") =>
          PrimaryEntries("things", last.summary) # {}
    /\ (last.cat = "activity" /\ last.out = "skipped") =>
          PrimaryEntries("activity", last.summary) # {}

\* the timed task was created in a second run, in a calendar that held the
\* activity of the same title and day since the first run
C37_Witness ==
    /\ taskdict = PlanSameTitle
    /\ last.cat = "timed"
    /\ last.out = "created"
    /\ run = 2
    /\ \E i \in 1..Len(remote) :
          /\ remote[i].run = 1
          /\ remote[i].src[2] = "activity"
          /\ remote[i].sink = "primary"
          /\ <<"⏰", " ">> \o remote[i].summary = last.summary
          /\ DateOf(remote[i].start.naive) = DateOf(last.resolved)

=============================================================================
